---- MODULE Spec2Model ----
(***************************************************************************)
(* Model of the contract-interaction tools of self-mcp                     *)
(* (src/self_mcp/tools/contract_interaction.py): the country-code codec,   *)
(* generate_scope_hash, generate_config_id, read_hub_config and            *)
(* list_country_codes, with the remote calls to the hub contract as steps  *)
(* of their own.                                                           *)
(*                                                                         *)
(* Representation.                                                         *)
(*  - A Python str is a sequence of code points (ord values).              *)
(*  - A Python int that holds a packed country word is kept as its         *)
(*    base-256 digits, least significant first: a function over 0..31      *)
(*    whose value at k is bits 8k..8k+7.  Shifts by a multiple of 8, the   *)
(*    mask 0xFF and to_bytes(32, 'big') are exact on this representation.  *)
(*  - keccak-256 is not computed: Keccak(b) is the digest of the preimage  *)
(*    b, kept as the preimage itself (collision-free idealisation).        *)
(***************************************************************************)
EXTENDS Integers, Sequences, FiniteSets

\* ---------------------------------------------------------------- bounds
\* longest country list the inputs hold (one more than MAX_LENGTH)
MaxListLen == 41
\* length of the repeating pattern a generated country list is built from
MaxPat == 2
\* number of invocations SpecPair follows
MaxCalls == 2

\* ------------------------------------------------------- program constants
MAX_LENGTH == 40
WordBytes == 32
BytesPerWord == 30
SlotsPerWord == 10
NumWords == 4
CodeLen == 3

\* ------------------------------------------------------------ characters
NUL == 0
USA == <<85, 83, 65>>
GBR == <<71, 66, 82>>
IRN == <<73, 82, 78>>
\* a 2-character entry
ShortCode == <<85, 83>>
\* a 4-character entry
LongCode == <<85, 83, 65, 65>>
\* 3 characters, the middle one U+0100 (ord 256, wider than one byte)
WideCode == <<65, 256, 66>>
\* 3 characters, the middle one NUL
NulCode == <<65, 0, 66>>

IsUpper(c) == c \in 65..90
\* a 3-letter uppercase ASCII code (spec section 3)
IsValidCode(code) == Len(code) = CodeLen /\ \A k \in 1..Len(code) : IsUpper(code[k])
IsValidList(countries) ==
    /\ Len(countries) <= MAX_LENGTH
    /\ \A k \in 1..Len(countries) : IsValidCode(countries[k])

\* ------------------------------------------------------ integer helpers
RECURSIVE BitOr(_, _)
\* a | b on non-negative integers
BitOr(a, b) ==
    IF a = 0 THEN b
    ELSE IF b = 0 THEN a
    ELSE (IF a % 2 = 1 \/ b % 2 = 1 THEN 1 ELSE 0) + 2 * BitOr(a \div 2, b \div 2)

\* base-256 digit d of a non-negative integer below 2^24 (every code point is)
ByteOf(value, d) == IF d > 2 THEN 0 ELSE (value \div (256 ^ d)) % 256

ZeroWord == [k \in 0..(WordBytes - 1) |-> 0]

\* packed_value | (value << (j * 8))
\* (value is below 2^24 and j at most 29, so only digits j..j+2 can change)
OrShift(packed_value, value, j) ==
    [packed_value EXCEPT ![j] = BitOr(@, ByteOf(value, 0)),
                         ![j + 1] = BitOr(@, ByteOf(value, 1)),
                         ![j + 2] = BitOr(@, ByteOf(value, 2))]

\* mutant: the shift is one byte too far
ByteAtNext(packed_value, byte_index) == packed_value[byte_index + 1]

\* (packed_value >> (byte_index * 8)) & 0xFF
ByteAt(packed_value, byte_index) == packed_value[byte_index]

\* str.ljust(width, '\0')
Ljust(s, width) ==
    IF Len(s) >= width THEN s ELSE s \o [k \in 1..(width - Len(s)) |-> NUL]

RECURSIVE Flatten(_)
\* result.extend([ord(c) for c in chars]) over the list
Flatten(strs) == IF strs = <<>> THEN <<>> ELSE Head(strs) \o Flatten(Tail(strs))

\* ------------------------------------------------------------- the codec
Ok(v) == [ok |-> TRUE, value |-> v]
Raise(kind, msg) == [ok |-> FALSE, exc |-> kind, error |-> msg]

FirstBad(countries) ==
    CHOOSE k \in 1..Len(countries) :
        /\ Len(countries[k]) # CodeLen
        /\ \A m \in 1..(k - 1) : Len(countries[m]) = CodeLen

\* mutant: the length test is off by one
format_countries_list_ge(countries) ==
    IF Len(countries) >= MAX_LENGTH
    THEN Raise("ValueError", [msg |-> "Maximum countries allowed", max |-> MAX_LENGTH])
    ELSE IF \E k \in 1..Len(countries) : Len(countries[k]) # CodeLen
    THEN Raise("ValueError", [msg |-> "Invalid country code. Must be 3 characters.",
                              code |-> countries[FirstBad(countries)]])
    ELSE LET padded == countries \o [k \in 1..(MAX_LENGTH - Len(countries)) |-> <<>>]
         IN Ok(Flatten([k \in 1..Len(padded) |-> Ljust(padded[k], CodeLen)]))

format_countries_list(countries) ==
    IF Len(countries) > MAX_LENGTH
    THEN Raise("ValueError", [msg |-> "Maximum countries allowed", max |-> MAX_LENGTH])
    ELSE IF \E k \in 1..Len(countries) : Len(countries[k]) # CodeLen
    THEN Raise("ValueError", [msg |-> "Invalid country code. Must be 3 characters.",
                              code |-> countries[FirstBad(countries)]])
    ELSE LET padded == countries \o [k \in 1..(MAX_LENGTH - Len(countries)) |-> <<>>]
         IN Ok(Flatten([k \in 1..Len(padded) |-> Ljust(padded[k], CodeLen)]))

RECURSIVE PackLoop(_, _, _, _)
\* the inner loop of generate_config_id: for j in range(30)
PackLoop(country_bytes, i, j, packed_value) ==
    IF j = BytesPerWord THEN packed_value
    ELSE LET byte_index == i * BytesPerWord + j
         IN PackLoop(country_bytes, i, j + 1,
                IF byte_index < Len(country_bytes)
                THEN OrShift(packed_value, country_bytes[byte_index + 1], j)
                ELSE packed_value)

\* mutant: the word index starts at 1
PackWordsFromOne(country_bytes) ==
    [w \in 1..NumWords |-> PackLoop(country_bytes, w, 0, ZeroWord)]

\* the outer loop: for i in range(4), config["forbiddenCountriesListPacked"][i]
PackWords(country_bytes) ==
    [w \in 1..NumWords |-> PackLoop(country_bytes, w - 1, 0, ZeroWord)]

RECURSIVE InsertByFirst(_, _)
InsertByFirst(code, sorted) ==
    IF sorted = <<>> THEN <<code>>
    ELSE IF code[1] <= Head(sorted)[1] THEN <<code>> \o sorted
    ELSE <<Head(sorted)>> \o InsertByFirst(code, Tail(sorted))

RECURSIVE SortByFirst(_)
SortByFirst(countries) ==
    IF countries = <<>> THEN <<>>
    ELSE InsertByFirst(Head(countries), SortByFirst(Tail(countries)))

\* mutant: the list is sorted (by first letter) before it is packed
PackCountriesSorted(excluded_countries) ==
    IF excluded_countries = <<>>
    THEN Ok([w \in 1..NumWords |-> ZeroWord])
    ELSE LET country_bytes == format_countries_list(SortByFirst(excluded_countries))
         IN IF country_bytes.ok THEN Ok(PackWords(country_bytes.value))
            ELSE country_bytes

\* lines 171-188 of generate_config_id: the packed words of a country list,
\* or the ValueError format_countries_list raised
PackCountries(excluded_countries) ==
    IF excluded_countries = <<>>
    THEN Ok([w \in 1..NumWords |-> ZeroWord])
    ELSE LET country_bytes == format_countries_list(excluded_countries)
         IN IF country_bytes.ok THEN Ok(PackWords(country_bytes.value))
            ELSE country_bytes

RECURSIVE SlotCharsSkipZero(_, _, _)
\* SlotChars with continue in place of break at a zero byte
SlotCharsSkipZero(packed_value, i, j) ==
    IF j = CodeLen THEN <<>>
    ELSE LET char_code == ByteAt(packed_value, i * CodeLen + j)
         IN (IF char_code = 0 THEN <<>> ELSE <<char_code>>)
            \o SlotCharsSkipZero(packed_value, i, j + 1)

RECURSIVE SlotChars(_, _, _)
\* for j in range(3): ... if char_code == 0: break; country += chr(char_code)
SlotChars(packed_value, i, j) ==
    IF j = CodeLen THEN <<>>
    ELSE LET char_code == ByteAt(packed_value, i * CodeLen + j)
         IN IF char_code = 0 THEN <<>>
            ELSE <<char_code>> \o SlotChars(packed_value, i, j + 1)

RECURSIVE UnpackWordNineSlots(_, _)
\* mutant: for i in range(9)
UnpackWordNineSlots(packed_value, i) ==
    IF i = SlotsPerWord - 1 THEN <<>>
    ELSE LET country == SlotChars(packed_value, i, 0)
         IN (IF country # <<>> /\ country # <<NUL, NUL, NUL>> THEN <<country>> ELSE <<>>)
            \o UnpackWordNineSlots(packed_value, i + 1)

RECURSIVE UnpackWord(_, _)
\* for i in range(10): ... if country and country != '\0\0\0': append
UnpackWord(packed_value, i) ==
    IF i = SlotsPerWord THEN <<>>
    ELSE LET country == SlotChars(packed_value, i, 0)
         IN (IF country # <<>> /\ country # <<NUL, NUL, NUL>> THEN <<country>> ELSE <<>>)
            \o UnpackWord(packed_value, i + 1)

RECURSIVE unpack_countries_from_config(_)
unpack_countries_from_config(packed_countries) ==
    IF packed_countries = <<>> THEN <<>>
    ELSE UnpackWord(Head(packed_countries), 0)
         \o unpack_countries_from_config(Tail(packed_countries))

\* ----------------------------------------------------- inputs of the codec
CodecCodes == {USA, GBR, IRN, ShortCode, WideCode, NulCode}

Patterns == UNION {[1..n -> CodecCodes] : n \in 1..MaxPat}

\* the list of n entries that repeats pat
Cycle(pat, n) == [k \in 1..n |-> pat[((k - 1) % Len(pat)) + 1]]

CountryLists == {Cycle(pat, n) : pat \in Patterns, n \in 0..MaxListLen}

\* ------------------------------------------------------- text helpers
StartsWith(s, prefix) ==
    Len(s) >= Len(prefix) /\ SubSeq(s, 1, Len(prefix)) = prefix

\* str.islower() / str.isdigit() of one character, for code points below 256
\* (Python's Unicode tables: the ASCII ranges and the Latin-1 letters and digits)
IsLowerChar(c) == c \in (97..122) \cup {170, 181, 186} \cup (223..246) \cup (248..255)
IsUpperChar(c) == c \in (65..90) \cup (192..214) \cup (216..222)
IsDigitChar(c) == c \in (48..57) \cup {178, 179, 185}

\* str.lower(), for code points below 256
LowerChar(c) == IF IsUpperChar(c) THEN c + 32 ELSE c
Lower(s) == [k \in 1..Len(s) |-> LowerChar(s[k])]

\* str.islower() / str.isupper() of a string: some cased character, none of the other case
StrIsLower(s) ==
    /\ \E k \in 1..Len(s) : IsLowerChar(s[k])
    /\ \A k \in 1..Len(s) : ~IsUpperChar(s[k])
StrIsUpper(s) ==
    /\ \E k \in 1..Len(s) : IsUpperChar(s[k])
    /\ \A k \in 1..Len(s) : ~IsLowerChar(s[k])
\* str.isnumeric(): the digits and the Latin-1 vulgar fractions
IsNumericChar(c) == IsDigitChar(c) \/ c \in 188..190
StrIsNumeric(s) == s # <<>> /\ \A k \in 1..Len(s) : IsNumericChar(s[k])

\* "0x"
Prefix0x == <<48, 120>>
\* "https://"
PrefixHttps == <<104, 116, 116, 112, 115, 58, 47, 47>>
\* " -_.,!?"
SeedSymbols == {32, 45, 95, 46, 44, 33, 63}

\* ------------------------------------------------------------ endpoints
\* "0x77117D60eaB7C044e785D68edB6C7E0e134970Ea" (the mainnet hub, EIP-55 form)
HubChecksum ==
    <<48, 120, 55, 55, 49, 49, 55, 68, 54, 48, 101, 97, 66, 55, 67, 48, 52, 52, 101, 55, 56, 53, 68, 54, 56, 101, 100, 66, 54, 67, 55, 69, 48, 101, 49, 51, 52, 57, 55, 48, 69, 97>>
\* "0x77117d60eab7c044e785d68edb6c7e0e134970ea"
HubLower ==
    <<48, 120, 55, 55, 49, 49, 55, 100, 54, 48, 101, 97, 98, 55, 99, 48, 52, 52, 101, 55, 56, 53, 100, 54, 56, 101, 100, 98, 54, 99, 55, 101, 48, 101, 49, 51, 52, 57, 55, 48, 101, 97>>
\* "0x77117D60EAB7C044E785D68EDB6C7E0E134970EA"
HubUpper ==
    <<48, 120, 55, 55, 49, 49, 55, 68, 54, 48, 69, 65, 66, 55, 67, 48, 52, 52, 69, 55, 56, 53, 68, 54, 56, 69, 68, 66, 54, 67, 55, 69, 48, 69, 49, 51, 52, 57, 55, 48, 69, 65>>
\* "0x77117d60eaB7C044e785D68edB6C7E0e134970Ea" (mixed case, not the EIP-55 form)
HubBadCase ==
    <<48, 120, 55, 55, 49, 49, 55, 100, 54, 48, 101, 97, 66, 55, 67, 48, 52, 52, 101, 55, 56, 53, 68, 54, 56, 101, 100, 66, 54, 67, 55, 69, 48, 101, 49, 51, 52, 57, 55, 48, 69, 97>>
\* "0x1212121212121212121212121212121212121212"
DigitsAddress ==
    <<48, 120, 49, 50, 49, 50, 49, 50, 49, 50, 49, 50, 49, 50, 49, 50, 49, 50, 49, 50, 49, 50, 49, 50, 49, 50, 49, 50, 49, 50, 49, 50, 49, 50, 49, 50, 49, 50, 49, 50, 49, 50>>
\* "0x77117d60eab7c044e785d68edb6c7e0e134970e" (39 hex digits)
ShortAddress ==
    <<48, 120, 55, 55, 49, 49, 55, 100, 54, 48, 101, 97, 98, 55, 99, 48, 52, 52, 101, 55, 56, 53, 100, 54, 56, 101, 100, 98, 54, 99, 55, 101, 48, 101, 49, 51, 52, 57, 55, 48, 101>>
\* "0x77117d60eab7c044e785d68edb6c7e0e134970ea0" (41 hex digits)
LongAddress ==
    <<48, 120, 55, 55, 49, 49, 55, 100, 54, 48, 101, 97, 98, 55, 99, 48, 52, 52, 101, 55, 56, 53, 100, 54, 56, 101, 100, 98, 54, 99, 55, 101, 48, 101, 49, 51, 52, 57, 55, 48, 101, 97, 48>>
\* "0xg7117d60eab7c044e785d68edb6c7e0e134970ea"
NonHexAddress ==
    <<48, 120, 103, 55, 49, 49, 55, 100, 54, 48, 101, 97, 98, 55, 99, 48, 52, 52, 101, 55, 56, 53, 100, 54, 56, 101, 100, 98, 54, 99, 55, 101, 48, 101, 49, 51, 52, 57, 55, 48, 101, 97>>
\* "77117d60eab7c044e785d68edb6c7e0e134970ea"
NoPrefixAddress ==
    <<55, 55, 49, 49, 55, 100, 54, 48, 101, 97, 98, 55, 99, 48, 52, 52, 101, 55, 56, 53, 100, 54, 56, 101, 100, 98, 54, 99, 55, 101, 48, 101, 49, 51, 52, 57, 55, 48, 101, 97>>
\* "https://a"
UrlShort ==
    <<104, 116, 116, 112, 115, 58, 47, 47, 97>>
\* "https://aa"
UrlShortA ==
    <<104, 116, 116, 112, 115, 58, 47, 47, 97, 97>>
\* "https://A.io"
UrlMixed ==
    <<104, 116, 116, 112, 115, 58, 47, 47, 65, 46, 105, 111>>
\* "https://a.io"
UrlLower ==
    <<104, 116, 116, 112, 115, 58, 47, 47, 97, 46, 105, 111>>
\* "http://a.io"
UrlHttp ==
    <<104, 116, 116, 112, 58, 47, 47, 97, 46, 105, 111>>
\* "HTTPS://a.io"
UrlUpperScheme ==
    <<72, 84, 84, 80, 83, 58, 47, 47, 97, 46, 105, 111>>

\* "https://" followed by the lone surrogate U+D800
UrlSurrogate == <<104, 116, 116, 112, 115, 58, 47, 47, 55296>>

Endpoints ==
    {HubChecksum, HubLower, HubUpper, HubBadCase, DigitsAddress, ShortAddress,
     LongAddress, NonHexAddress, Prefix0x, NoPrefixAddress, PrefixHttps, UrlShort,
     UrlMixed, UrlLower, UrlHttp, UrlUpperScheme, UrlSurrogate, <<>>}

\* ------------------------------------------- eth_utils.is_address (library)
IsHexDigit(c) == c \in (48..57) \cup (97..102) \cup (65..70)

remove_0x_prefix(value) ==
    IF StartsWith(Lower(value), Prefix0x) THEN SubSeq(value, 3, Len(value)) ELSE value

\* fullmatch of (0x)?[0-9a-f]{40}, ignoring case
is_hex_address(value) ==
    LET digits == remove_0x_prefix(value)
    IN Len(digits) = 40 /\ \A k \in 1..Len(digits) : IsHexDigit(digits[k])

is_checksum_formatted(value) ==
    LET unprefixed == remove_0x_prefix(value)
    IN ~StrIsLower(unprefixed) /\ ~StrIsUpper(unprefixed) /\ ~StrIsNumeric(unprefixed)

\* The EIP-55 form of an address.  It is fixed by the keccak-256 digest of the
\* lower-case digits; the table holds it for the addresses of Endpoints, and no
\* other mixed-case address is ever asked for.
to_checksum_address(value) ==
    CASE Lower(value) = HubLower -> HubChecksum
      [] Lower(value) = DigitsAddress -> DigitsAddress

is_checksum_address(value) == value = to_checksum_address(value)

is_address(value) ==
    /\ is_hex_address(value)
    /\ is_checksum_formatted(value) => is_checksum_address(value)

\* ------------------------------------------------------------- digests
\* text.encode("utf-8"), which Web3.keccak(text=...) applies first, raises
\* UnicodeEncodeError on a surrogate code point
Utf8Encodable(text) == \A k \in 1..Len(text) : text[k] \notin 55296..57343

\* Web3.keccak(...).hex(): the hex text of the digest of a preimage, kept as a
\* one-item text that names the preimage
KeccakHex(preimage) == <<[keccak |-> preimage]>>

\* --------------------------------------------------- generate_scope_hash
\* mutant: the bare "https://" prefix passes the length test
EndpointErrorsBarePrefix(address_or_url) ==
    IF StartsWith(address_or_url, Prefix0x)
    THEN IF is_address(address_or_url) THEN <<>>
         ELSE <<"Invalid Ethereum address format">>
    ELSE IF StartsWith(address_or_url, PrefixHttps)
    THEN IF Len(address_or_url) >= 8 THEN <<>> ELSE <<"Invalid HTTPS URL">>
    ELSE <<"Input must be an Ethereum address (0x...) or HTTPS URL">>

EndpointErrors(address_or_url) ==
    IF StartsWith(address_or_url, Prefix0x)
    THEN IF is_address(address_or_url) THEN <<>>
         ELSE <<"Invalid Ethereum address format">>
    ELSE IF StartsWith(address_or_url, PrefixHttps)
    THEN IF Len(address_or_url) > 8 THEN <<>> ELSE <<"Invalid HTTPS URL">>
    ELSE <<"Input must be an Ethereum address (0x...) or HTTPS URL">>

InputType(address_or_url) ==
    IF StartsWith(address_or_url, Prefix0x)
    THEN IF is_address(address_or_url) THEN "address" ELSE ""
    ELSE IF StartsWith(address_or_url, PrefixHttps)
    THEN IF Len(address_or_url) > 8 THEN "url" ELSE ""
    ELSE ""

SeedCharAllowed(c) == IsLowerChar(c) \/ IsDigitChar(c) \/ c \in SeedSymbols

SeedErrors(scope_seed) ==
    IF scope_seed = <<>> THEN <<"Scope seed cannot be empty">>
    ELSE IF Len(scope_seed) > 20 THEN <<"Scope seed must be 20 characters or less">>
    ELSE IF ~(\A k \in 1..Len(scope_seed) : SeedCharAllowed(scope_seed[k]))
    THEN <<"Scope seed must contain only lowercase ASCII characters">>
    ELSE <<>>

\* mutant: the endpoint is hashed as given, not lowercased
generate_scope_hash_as_given(address_or_url, scope_seed) ==
    LET errors == EndpointErrors(address_or_url) \o SeedErrors(scope_seed)
        input_type == InputType(address_or_url)
    IN IF errors # <<>>
       THEN [error |-> errors, scope_hash |-> <<>>, validation |-> "invalid",
             input_type |-> input_type]
       ELSE [scope_hash |-> KeccakHex(address_or_url \o scope_seed),
             validation |-> "valid", input_type |-> input_type,
             address_or_url |-> address_or_url, scope_seed |-> scope_seed,
             tools_url |-> "https://tools.self.xyz/#scope-generator"]

\* mutant: the seed is hashed in front of the endpoint
generate_scope_hash_seed_first(address_or_url, scope_seed) ==
    LET errors == EndpointErrors(address_or_url) \o SeedErrors(scope_seed)
        input_type == InputType(address_or_url)
    IN IF errors # <<>>
       THEN [error |-> errors, scope_hash |-> <<>>, validation |-> "invalid",
             input_type |-> input_type]
       ELSE [scope_hash |-> KeccakHex(scope_seed \o Lower(address_or_url)),
             validation |-> "valid", input_type |-> input_type,
             address_or_url |-> address_or_url, scope_seed |-> scope_seed,
             tools_url |-> "https://tools.self.xyz/#scope-generator"]

\* the dict generate_scope_hash returns ("; ".join(errors) is kept as the list)
generate_scope_hash(address_or_url, scope_seed) ==
    LET errors == EndpointErrors(address_or_url) \o SeedErrors(scope_seed)
        input_type == InputType(address_or_url)
    IN IF errors # <<>>
       THEN [error |-> errors, scope_hash |-> <<>>, validation |-> "invalid",
             input_type |-> input_type]
       ELSE [scope_hash |-> KeccakHex(Lower(address_or_url) \o scope_seed),
             validation |-> "valid", input_type |-> input_type,
             address_or_url |-> address_or_url, scope_seed |-> scope_seed,
             tools_url |-> "https://tools.self.xyz/#scope-generator"]

\* ---------------------------------------------------- the network table
CELO_NETWORKS ==
    [mainnet |-> [rpc |-> "https://forno.celo.org", chainId |-> 42220,
                  explorer |-> "https://celoscan.io",
                  hub |-> "0x77117D60eaB7C044e785D68edB6C7E0e134970Ea"],
     testnet |-> [rpc |-> "https://alfajores-forno.celo-testnet.org", chainId |-> 44787,
                  explorer |-> "https://alfajores.celoscan.io",
                  hub |-> "0x68c931C9a534D37aa78094877F46fE46a49F1A51"]]

Networks == {"mainnet", "testnet"}

\* ---------------------------------------------------- generate_config_id
DefaultOfac == <<FALSE, FALSE, FALSE>>

\* if len(ofac_enabled) != 3: ofac_enabled = [False, False, False]
EffectiveOfac(ofac_enabled) ==
    IF Len(ofac_enabled) # 3 THEN DefaultOfac ELSE ofac_enabled

\* mutant: 150 itself is rejected
AgeRejectedAt150(minimum_age) == minimum_age < 0 \/ minimum_age >= 150

\* if minimum_age < 0 or minimum_age > 150
AgeRejected(minimum_age) == minimum_age < 0 \/ minimum_age > 150

\* the config dict, with the packed words in place
ConfigStruct(minimum_age, excluded_countries, ofac_enabled, packed) ==
    [olderThanEnabled |-> minimum_age > 0,
     olderThan |-> minimum_age,
     forbiddenCountriesEnabled |-> Len(excluded_countries) > 0,
     forbiddenCountriesListPacked |-> packed,
     ofacEnabled |-> ofac_enabled]

\* bool.to_bytes(1, 'big')
BoolToBytes(b) == <<IF b THEN 1 ELSE 0>>

\* int.to_bytes(length, 'big') of a non-negative integer below 2^24
IntToBytesBig(n, length) == [p \in 1..length |-> ByteOf(n, length - p)]

\* mutant: the least significant digit first
WordToBytesLittle(packed_country) ==
    [p \in 1..WordBytes |-> packed_country[p - 1]]

\* packed_country.to_bytes(32, 'big'): the most significant digit first
WordToBytesBig(packed_country) ==
    [p \in 1..WordBytes |-> packed_country[WordBytes - p]]

\* mutant: each sanctions byte is written as any(ofacEnabled)
EncodePackedAnyOfac(config) ==
    BoolToBytes(config.olderThanEnabled)
    \o IntToBytesBig(config.olderThan, WordBytes)
    \o BoolToBytes(config.forbiddenCountriesEnabled)
    \o Flatten([w \in 1..Len(config.forbiddenCountriesListPacked) |->
                    WordToBytesBig(config.forbiddenCountriesListPacked[w])])
    \o Flatten([k \in 1..Len(config.ofacEnabled) |->
                    BoolToBytes(\E m \in 1..Len(config.ofacEnabled) : config.ofacEnabled[m])])

\* packed_data, in the order the fields are appended
EncodePacked(config) ==
    BoolToBytes(config.olderThanEnabled)
    \o IntToBytesBig(config.olderThan, WordBytes)
    \o BoolToBytes(config.forbiddenCountriesEnabled)
    \o Flatten([w \in 1..Len(config.forbiddenCountriesListPacked) |->
                    WordToBytesBig(config.forbiddenCountriesListPacked[w])])
    \o Flatten([k \in 1..Len(config.ofacEnabled) |-> BoolToBytes(config.ofacEnabled[k])])

RECURSIVE Join(_, _)
\* sep.join(strs)
Join(strs, sep) ==
    IF strs = <<>> THEN <<>>
    ELSE IF Len(strs) = 1 THEN Head(strs)
    ELSE Head(strs) \o sep \o Join(Tail(strs), sep)

Comma == <<44>>

\* mutant: the age is written into the URL when it is 0 as well
UrlParamsWithZeroAge(minimum_age, excluded_countries, ofac_enabled) ==
    (IF minimum_age >= 0 THEN <<[key |-> "age", int |-> minimum_age]>> ELSE <<>>)
    \o (IF excluded_countries # <<>>
        THEN <<[key |-> "countries", text |-> Join(excluded_countries, Comma)]>>
        ELSE <<>>)
    \o (IF \E k \in 1..Len(ofac_enabled) : ofac_enabled[k]
        THEN <<[key |-> "ofac",
                flags |-> [k \in 1..Len(ofac_enabled) |->
                              IF ofac_enabled[k] THEN "true" ELSE "false"]]>>
        ELSE <<>>)

\* url_params: age=<n>, countries=<joined codes>, ofac=<joined lower-cased flags>
UrlParams(minimum_age, excluded_countries, ofac_enabled) ==
    (IF minimum_age > 0 THEN <<[key |-> "age", int |-> minimum_age]>> ELSE <<>>)
    \o (IF excluded_countries # <<>>
        THEN <<[key |-> "countries", text |-> Join(excluded_countries, Comma)]>>
        ELSE <<>>)
    \o (IF \E k \in 1..Len(ofac_enabled) : ofac_enabled[k]
        THEN <<[key |-> "ofac",
                flags |-> [k \in 1..Len(ofac_enabled) |->
                              IF ofac_enabled[k] THEN "true" ELSE "false"]]>>
        ELSE <<>>)

\* mutant: the returned id is the digest of the encoding followed by the chain id
ConfigResultPerNetwork(f, exists_on_chain) ==
    [config_id |-> KeccakHex(f.packed_data \o <<CELO_NETWORKS[f.network].chainId>>),
     exists_on_chain |-> exists_on_chain,
     network |-> f.network,
     configuration |->
        [minimum_age |-> IF f.minimum_age > 0 THEN <<"int", f.minimum_age>>
                         ELSE <<"str", "Disabled">>,
         excluded_countries |-> IF f.excluded_countries # <<>>
                                THEN <<"list", f.excluded_countries>>
                                ELSE <<"str", "None">>,
         ofac_settings |-> [basic |-> f.ofac_enabled[1],
                            enhanced |-> f.ofac_enabled[2],
                            comprehensive |-> f.ofac_enabled[3]]],
     deploy_url |-> IF ~exists_on_chain
                    THEN <<"https://tools.self.xyz/?",
                           UrlParams(f.minimum_age, f.excluded_countries, f.ofac_enabled)>>
                    ELSE <<>>,
     message |-> IF exists_on_chain THEN "Config already exists on-chain"
                 ELSE "Config does not exist yet, use deploy_url to create it"]

\* mutant: the number of flags is tested, and refused, after the existence check
ConfigResultFlagsTestedLate(f, exists_on_chain) ==
    IF Len(f.ofac_supplied) # 3
    THEN [error |-> [msg |-> "OFAC settings must be 3 flags"]]
    ELSE [ConfigResultPerNetwork(f, exists_on_chain) EXCEPT !.config_id = f.config_id]

\* the dict generate_config_id returns after the existence check; a deploy_url
\* of None is kept as the empty tuple
ConfigResult(f, exists_on_chain) ==
    [config_id |-> f.config_id,
     exists_on_chain |-> exists_on_chain,
     network |-> f.network,
     configuration |->
        [minimum_age |-> IF f.minimum_age > 0 THEN <<"int", f.minimum_age>>
                         ELSE <<"str", "Disabled">>,
         excluded_countries |-> IF f.excluded_countries # <<>>
                                THEN <<"list", f.excluded_countries>>
                                ELSE <<"str", "None">>,
         ofac_settings |-> [basic |-> f.ofac_enabled[1],
                            enhanced |-> f.ofac_enabled[2],
                            comprehensive |-> f.ofac_enabled[3]]],
     deploy_url |-> IF ~exists_on_chain
                    THEN <<"https://tools.self.xyz/?",
                           UrlParams(f.minimum_age, f.excluded_countries, f.ofac_enabled)>>
                    ELSE <<>>,
     message |-> IF exists_on_chain THEN "Config already exists on-chain"
                 ELSE "Config does not exist yet, use deploy_url to create it"]

\* ------------------------------------------------------ read_hub_config
\* the country-name table, codes and names as texts
COUNTRY_CODES ==
    {
     \* USA: United States
     [code |-> <<85, 83, 65>>,
      name |-> <<85, 110, 105, 116, 101, 100, 32, 83, 116, 97, 116, 101, 115>>],
     \* GBR: United Kingdom
     [code |-> <<71, 66, 82>>,
      name |-> <<85, 110, 105, 116, 101, 100, 32, 75, 105, 110, 103, 100, 111, 109>>],
     \* CAN: Canada
     [code |-> <<67, 65, 78>>,
      name |-> <<67, 97, 110, 97, 100, 97>>],
     \* AUS: Australia
     [code |-> <<65, 85, 83>>,
      name |-> <<65, 117, 115, 116, 114, 97, 108, 105, 97>>],
     \* NZL: New Zealand
     [code |-> <<78, 90, 76>>,
      name |-> <<78, 101, 119, 32, 90, 101, 97, 108, 97, 110, 100>>],
     \* IRN: Iran
     [code |-> <<73, 82, 78>>,
      name |-> <<73, 114, 97, 110>>],
     \* PRK: North Korea
     [code |-> <<80, 82, 75>>,
      name |-> <<78, 111, 114, 116, 104, 32, 75, 111, 114, 101, 97>>],
     \* CUB: Cuba
     [code |-> <<67, 85, 66>>,
      name |-> <<67, 117, 98, 97>>],
     \* SYR: Syria
     [code |-> <<83, 89, 82>>,
      name |-> <<83, 121, 114, 105, 97>>],
     \* RUS: Russia
     [code |-> <<82, 85, 83>>,
      name |-> <<82, 117, 115, 115, 105, 97>>],
     \* CHN: China
     [code |-> <<67, 72, 78>>,
      name |-> <<67, 104, 105, 110, 97>>],
     \* IND: India
     [code |-> <<73, 78, 68>>,
      name |-> <<73, 110, 100, 105, 97>>],
     \* JPN: Japan
     [code |-> <<74, 80, 78>>,
      name |-> <<74, 97, 112, 97, 110>>],
     \* KOR: South Korea
     [code |-> <<75, 79, 82>>,
      name |-> <<83, 111, 117, 116, 104, 32, 75, 111, 114, 101, 97>>],
     \* DEU: Germany
     [code |-> <<68, 69, 85>>,
      name |-> <<71, 101, 114, 109, 97, 110, 121>>],
     \* FRA: France
     [code |-> <<70, 82, 65>>,
      name |-> <<70, 114, 97, 110, 99, 101>>],
     \* ITA: Italy
     [code |-> <<73, 84, 65>>,
      name |-> <<73, 116, 97, 108, 121>>],
     \* ESP: Spain
     [code |-> <<69, 83, 80>>,
      name |-> <<83, 112, 97, 105, 110>>],
     \* BRA: Brazil
     [code |-> <<66, 82, 65>>,
      name |-> <<66, 114, 97, 122, 105, 108>>],
     \* ARG: Argentina
     [code |-> <<65, 82, 71>>,
      name |-> <<65, 114, 103, 101, 110, 116, 105, 110, 97>>],
     \* MEX: Mexico
     [code |-> <<77, 69, 88>>,
      name |-> <<77, 101, 120, 105, 99, 111>>]
    }

\* mutant: COUNTRY_CODES.get(code, ''), no fallback to the code
CountryNameOrEmpty(code) ==
    IF \E e \in COUNTRY_CODES : e.code = code
    THEN (CHOOSE e \in COUNTRY_CODES : e.code = code).name
    ELSE <<>>

\* COUNTRY_CODES.get(code, code)
CountryName(code) ==
    IF \E e \in COUNTRY_CODES : e.code = code
    THEN (CHOOSE e \in COUNTRY_CODES : e.code = code).name
    ELSE code

\* the test of the id at the head of read_hub_config: the prefix and the length
ConfigIdRefused(config_id) ==
    ~StartsWith(config_id, Prefix0x) \/ Len(config_id) # 66

\* web3 encodes the id as a bytes32 argument before anything is sent: a text
\* that is not "0x" and 64 hex digits cannot be encoded and the call raises
IsEncodableBytes32(config_id) ==
    /\ Len(remove_0x_prefix(config_id)) = 64
    /\ \A k \in 1..64 : IsHexDigit(remove_0x_prefix(config_id)[k])

\* what read_hub_config returns for a malformed id
ReadRefusal ==
    [error |-> [msg |-> "Invalid config ID format. Must be 0x followed by 64 hex characters."]]

\* what read_hub_config returns when the existence check answers false
ReadNotFound(config_id, network) ==
    [error |-> [msg |-> "Configuration does not exist", config_id |-> config_id,
                network |-> network],
     config_id |-> config_id, network |-> network, exists |-> FALSE]

\* mutant: a failure is reported as an id that does not exist
ReadFailureAsNotFound(config_id, network, exception) ==
    ReadNotFound(config_id, network)

\* what the except clause of read_hub_config returns
ReadFailure(config_id, network, exception) ==
    [error |-> [msg |-> "Error reading config", exception |-> exception],
     config_id |-> config_id, network |-> network]

\* the report read_hub_config returns for a fetched struct (config[0] to
\* config[4] are the five fields of the struct, in the order of ConfigStruct)
ReadReport(config_id, network, config) ==
    LET older_than_enabled == config.olderThanEnabled
        older_than == config.olderThan
        forbidden_countries_enabled == config.forbiddenCountriesEnabled
        forbidden_countries_packed == config.forbiddenCountriesListPacked
        ofac_enabled == config.ofacEnabled
        excluded_countries ==
            IF forbidden_countries_enabled
            THEN unpack_countries_from_config(forbidden_countries_packed)
            ELSE <<>>
        excluded_countries_readable ==
            [k \in 1..Len(excluded_countries) |->
                [code |-> excluded_countries[k], name |-> CountryName(excluded_countries[k])]]
        any_ofac == \E k \in 1..Len(ofac_enabled) : ofac_enabled[k]
    IN [config_id |-> config_id,
        network |-> network,
        exists |-> TRUE,
        configuration |->
            [minimum_age |->
                [enabled |-> older_than_enabled,
                 value |-> IF older_than_enabled THEN <<"int", older_than>> ELSE <<"None">>,
                 display |-> IF older_than_enabled THEN <<older_than, " years">>
                             ELSE <<"Disabled">>],
             excluded_countries |->
                [enabled |-> forbidden_countries_enabled,
                 codes |-> excluded_countries,
                 readable |-> excluded_countries_readable,
                 count |-> Len(excluded_countries),
                 display |-> IF forbidden_countries_enabled
                             THEN <<Len(excluded_countries), " countries excluded">>
                             ELSE <<"No restrictions">>],
             ofac_settings |->
                [basic |-> ofac_enabled[1],
                 enhanced |-> ofac_enabled[2],
                 comprehensive |-> ofac_enabled[3],
                 any_enabled |-> any_ofac,
                 display |-> IF any_ofac THEN "Enabled" ELSE "Disabled"]],
        hub_address |-> CELO_NETWORKS[network].hub,
        explorer_url |-> <<CELO_NETWORKS[network].explorer, "/address/",
                           CELO_NETWORKS[network].hub>>]

\* ---------------------------------------------------- list_country_codes
\* the entries list_country_codes adds to COUNTRY_CODES
ExtendedCountries ==
    {
     \* AFG: Afghanistan
     [code |-> <<65, 70, 71>>,
      name |-> <<65, 102, 103, 104, 97, 110, 105, 115, 116, 97, 110>>],
     \* ALB: Albania
     [code |-> <<65, 76, 66>>,
      name |-> <<65, 108, 98, 97, 110, 105, 97>>],
     \* DZA: Algeria
     [code |-> <<68, 90, 65>>,
      name |-> <<65, 108, 103, 101, 114, 105, 97>>],
     \* AND: Andorra
     [code |-> <<65, 78, 68>>,
      name |-> <<65, 110, 100, 111, 114, 114, 97>>],
     \* AGO: Angola
     [code |-> <<65, 71, 79>>,
      name |-> <<65, 110, 103, 111, 108, 97>>],
     \* ATG: Antigua and Barbuda
     [code |-> <<65, 84, 71>>,
      name |-> <<65, 110, 116, 105, 103, 117, 97, 32, 97, 110, 100, 32, 66, 97, 114, 98, 117, 100, 97>>],
     \* ARM: Armenia
     [code |-> <<65, 82, 77>>,
      name |-> <<65, 114, 109, 101, 110, 105, 97>>],
     \* AUT: Austria
     [code |-> <<65, 85, 84>>,
      name |-> <<65, 117, 115, 116, 114, 105, 97>>],
     \* AZE: Azerbaijan
     [code |-> <<65, 90, 69>>,
      name |-> <<65, 122, 101, 114, 98, 97, 105, 106, 97, 110>>],
     \* BHS: Bahamas
     [code |-> <<66, 72, 83>>,
      name |-> <<66, 97, 104, 97, 109, 97, 115>>],
     \* BHR: Bahrain
     [code |-> <<66, 72, 82>>,
      name |-> <<66, 97, 104, 114, 97, 105, 110>>],
     \* BGD: Bangladesh
     [code |-> <<66, 71, 68>>,
      name |-> <<66, 97, 110, 103, 108, 97, 100, 101, 115, 104>>],
     \* BRB: Barbados
     [code |-> <<66, 82, 66>>,
      name |-> <<66, 97, 114, 98, 97, 100, 111, 115>>],
     \* BLR: Belarus
     [code |-> <<66, 76, 82>>,
      name |-> <<66, 101, 108, 97, 114, 117, 115>>],
     \* BEL: Belgium
     [code |-> <<66, 69, 76>>,
      name |-> <<66, 101, 108, 103, 105, 117, 109>>],
     \* BLZ: Belize
     [code |-> <<66, 76, 90>>,
      name |-> <<66, 101, 108, 105, 122, 101>>],
     \* BEN: Benin
     [code |-> <<66, 69, 78>>,
      name |-> <<66, 101, 110, 105, 110>>],
     \* BTN: Bhutan
     [code |-> <<66, 84, 78>>,
      name |-> <<66, 104, 117, 116, 97, 110>>],
     \* BOL: Bolivia
     [code |-> <<66, 79, 76>>,
      name |-> <<66, 111, 108, 105, 118, 105, 97>>],
     \* BIH: Bosnia and Herzegovina
     [code |-> <<66, 73, 72>>,
      name |-> <<66, 111, 115, 110, 105, 97, 32, 97, 110, 100, 32, 72, 101, 114, 122, 101, 103, 111, 118, 105, 110, 97>>],
     \* BWA: Botswana
     [code |-> <<66, 87, 65>>,
      name |-> <<66, 111, 116, 115, 119, 97, 110, 97>>],
     \* BRN: Brunei
     [code |-> <<66, 82, 78>>,
      name |-> <<66, 114, 117, 110, 101, 105>>],
     \* BGR: Bulgaria
     [code |-> <<66, 71, 82>>,
      name |-> <<66, 117, 108, 103, 97, 114, 105, 97>>],
     \* BFA: Burkina Faso
     [code |-> <<66, 70, 65>>,
      name |-> <<66, 117, 114, 107, 105, 110, 97, 32, 70, 97, 115, 111>>],
     \* BDI: Burundi
     [code |-> <<66, 68, 73>>,
      name |-> <<66, 117, 114, 117, 110, 100, 105>>],
     \* CPV: Cabo Verde
     [code |-> <<67, 80, 86>>,
      name |-> <<67, 97, 98, 111, 32, 86, 101, 114, 100, 101>>],
     \* KHM: Cambodia
     [code |-> <<75, 72, 77>>,
      name |-> <<67, 97, 109, 98, 111, 100, 105, 97>>],
     \* CMR: Cameroon
     [code |-> <<67, 77, 82>>,
      name |-> <<67, 97, 109, 101, 114, 111, 111, 110>>],
     \* CAF: Central African Republic
     [code |-> <<67, 65, 70>>,
      name |-> <<67, 101, 110, 116, 114, 97, 108, 32, 65, 102, 114, 105, 99, 97, 110, 32, 82, 101, 112, 117, 98, 108, 105, 99>>],
     \* TCD: Chad
     [code |-> <<84, 67, 68>>,
      name |-> <<67, 104, 97, 100>>],
     \* CHL: Chile
     [code |-> <<67, 72, 76>>,
      name |-> <<67, 104, 105, 108, 101>>],
     \* COL: Colombia
     [code |-> <<67, 79, 76>>,
      name |-> <<67, 111, 108, 111, 109, 98, 105, 97>>],
     \* COM: Comoros
     [code |-> <<67, 79, 77>>,
      name |-> <<67, 111, 109, 111, 114, 111, 115>>],
     \* COG: Congo
     [code |-> <<67, 79, 71>>,
      name |-> <<67, 111, 110, 103, 111>>],
     \* CRI: Costa Rica
     [code |-> <<67, 82, 73>>,
      name |-> <<67, 111, 115, 116, 97, 32, 82, 105, 99, 97>>],
     \* HRV: Croatia
     [code |-> <<72, 82, 86>>,
      name |-> <<67, 114, 111, 97, 116, 105, 97>>],
     \* CYP: Cyprus
     [code |-> <<67, 89, 80>>,
      name |-> <<67, 121, 112, 114, 117, 115>>],
     \* CZE: Czech Republic
     [code |-> <<67, 90, 69>>,
      name |-> <<67, 122, 101, 99, 104, 32, 82, 101, 112, 117, 98, 108, 105, 99>>],
     \* DNK: Denmark
     [code |-> <<68, 78, 75>>,
      name |-> <<68, 101, 110, 109, 97, 114, 107>>],
     \* DJI: Djibouti
     [code |-> <<68, 74, 73>>,
      name |-> <<68, 106, 105, 98, 111, 117, 116, 105>>],
     \* DMA: Dominica
     [code |-> <<68, 77, 65>>,
      name |-> <<68, 111, 109, 105, 110, 105, 99, 97>>],
     \* DOM: Dominican Republic
     [code |-> <<68, 79, 77>>,
      name |-> <<68, 111, 109, 105, 110, 105, 99, 97, 110, 32, 82, 101, 112, 117, 98, 108, 105, 99>>],
     \* ECU: Ecuador
     [code |-> <<69, 67, 85>>,
      name |-> <<69, 99, 117, 97, 100, 111, 114>>],
     \* EGY: Egypt
     [code |-> <<69, 71, 89>>,
      name |-> <<69, 103, 121, 112, 116>>],
     \* SLV: El Salvador
     [code |-> <<83, 76, 86>>,
      name |-> <<69, 108, 32, 83, 97, 108, 118, 97, 100, 111, 114>>],
     \* GNQ: Equatorial Guinea
     [code |-> <<71, 78, 81>>,
      name |-> <<69, 113, 117, 97, 116, 111, 114, 105, 97, 108, 32, 71, 117, 105, 110, 101, 97>>],
     \* ERI: Eritrea
     [code |-> <<69, 82, 73>>,
      name |-> <<69, 114, 105, 116, 114, 101, 97>>],
     \* EST: Estonia
     [code |-> <<69, 83, 84>>,
      name |-> <<69, 115, 116, 111, 110, 105, 97>>],
     \* SWZ: Eswatini
     [code |-> <<83, 87, 90>>,
      name |-> <<69, 115, 119, 97, 116, 105, 110, 105>>],
     \* ETH: Ethiopia
     [code |-> <<69, 84, 72>>,
      name |-> <<69, 116, 104, 105, 111, 112, 105, 97>>],
     \* FJI: Fiji
     [code |-> <<70, 74, 73>>,
      name |-> <<70, 105, 106, 105>>],
     \* FIN: Finland
     [code |-> <<70, 73, 78>>,
      name |-> <<70, 105, 110, 108, 97, 110, 100>>],
     \* GAB: Gabon
     [code |-> <<71, 65, 66>>,
      name |-> <<71, 97, 98, 111, 110>>],
     \* GMB: Gambia
     [code |-> <<71, 77, 66>>,
      name |-> <<71, 97, 109, 98, 105, 97>>],
     \* GEO: Georgia
     [code |-> <<71, 69, 79>>,
      name |-> <<71, 101, 111, 114, 103, 105, 97>>],
     \* GHA: Ghana
     [code |-> <<71, 72, 65>>,
      name |-> <<71, 104, 97, 110, 97>>],
     \* GRC: Greece
     [code |-> <<71, 82, 67>>,
      name |-> <<71, 114, 101, 101, 99, 101>>],
     \* GRD: Grenada
     [code |-> <<71, 82, 68>>,
      name |-> <<71, 114, 101, 110, 97, 100, 97>>],
     \* GTM: Guatemala
     [code |-> <<71, 84, 77>>,
      name |-> <<71, 117, 97, 116, 101, 109, 97, 108, 97>>],
     \* GIN: Guinea
     [code |-> <<71, 73, 78>>,
      name |-> <<71, 117, 105, 110, 101, 97>>],
     \* GNB: Guinea-Bissau
     [code |-> <<71, 78, 66>>,
      name |-> <<71, 117, 105, 110, 101, 97, 45, 66, 105, 115, 115, 97, 117>>],
     \* GUY: Guyana
     [code |-> <<71, 85, 89>>,
      name |-> <<71, 117, 121, 97, 110, 97>>],
     \* HTI: Haiti
     [code |-> <<72, 84, 73>>,
      name |-> <<72, 97, 105, 116, 105>>],
     \* HND: Honduras
     [code |-> <<72, 78, 68>>,
      name |-> <<72, 111, 110, 100, 117, 114, 97, 115>>],
     \* HUN: Hungary
     [code |-> <<72, 85, 78>>,
      name |-> <<72, 117, 110, 103, 97, 114, 121>>],
     \* ISL: Iceland
     [code |-> <<73, 83, 76>>,
      name |-> <<73, 99, 101, 108, 97, 110, 100>>],
     \* IDN: Indonesia
     [code |-> <<73, 68, 78>>,
      name |-> <<73, 110, 100, 111, 110, 101, 115, 105, 97>>],
     \* IRQ: Iraq
     [code |-> <<73, 82, 81>>,
      name |-> <<73, 114, 97, 113>>],
     \* IRL: Ireland
     [code |-> <<73, 82, 76>>,
      name |-> <<73, 114, 101, 108, 97, 110, 100>>],
     \* ISR: Israel
     [code |-> <<73, 83, 82>>,
      name |-> <<73, 115, 114, 97, 101, 108>>],
     \* JAM: Jamaica
     [code |-> <<74, 65, 77>>,
      name |-> <<74, 97, 109, 97, 105, 99, 97>>],
     \* JOR: Jordan
     [code |-> <<74, 79, 82>>,
      name |-> <<74, 111, 114, 100, 97, 110>>],
     \* KAZ: Kazakhstan
     [code |-> <<75, 65, 90>>,
      name |-> <<75, 97, 122, 97, 107, 104, 115, 116, 97, 110>>],
     \* KEN: Kenya
     [code |-> <<75, 69, 78>>,
      name |-> <<75, 101, 110, 121, 97>>],
     \* KIR: Kiribati
     [code |-> <<75, 73, 82>>,
      name |-> <<75, 105, 114, 105, 98, 97, 116, 105>>],
     \* KWT: Kuwait
     [code |-> <<75, 87, 84>>,
      name |-> <<75, 117, 119, 97, 105, 116>>],
     \* KGZ: Kyrgyzstan
     [code |-> <<75, 71, 90>>,
      name |-> <<75, 121, 114, 103, 121, 122, 115, 116, 97, 110>>],
     \* LAO: Laos
     [code |-> <<76, 65, 79>>,
      name |-> <<76, 97, 111, 115>>],
     \* LVA: Latvia
     [code |-> <<76, 86, 65>>,
      name |-> <<76, 97, 116, 118, 105, 97>>],
     \* LBN: Lebanon
     [code |-> <<76, 66, 78>>,
      name |-> <<76, 101, 98, 97, 110, 111, 110>>],
     \* LSO: Lesotho
     [code |-> <<76, 83, 79>>,
      name |-> <<76, 101, 115, 111, 116, 104, 111>>],
     \* LBR: Liberia
     [code |-> <<76, 66, 82>>,
      name |-> <<76, 105, 98, 101, 114, 105, 97>>],
     \* LBY: Libya
     [code |-> <<76, 66, 89>>,
      name |-> <<76, 105, 98, 121, 97>>],
     \* LIE: Liechtenstein
     [code |-> <<76, 73, 69>>,
      name |-> <<76, 105, 101, 99, 104, 116, 101, 110, 115, 116, 101, 105, 110>>],
     \* LTU: Lithuania
     [code |-> <<76, 84, 85>>,
      name |-> <<76, 105, 116, 104, 117, 97, 110, 105, 97>>],
     \* LUX: Luxembourg
     [code |-> <<76, 85, 88>>,
      name |-> <<76, 117, 120, 101, 109, 98, 111, 117, 114, 103>>],
     \* MDG: Madagascar
     [code |-> <<77, 68, 71>>,
      name |-> <<77, 97, 100, 97, 103, 97, 115, 99, 97, 114>>],
     \* MWI: Malawi
     [code |-> <<77, 87, 73>>,
      name |-> <<77, 97, 108, 97, 119, 105>>],
     \* MYS: Malaysia
     [code |-> <<77, 89, 83>>,
      name |-> <<77, 97, 108, 97, 121, 115, 105, 97>>],
     \* MDV: Maldives
     [code |-> <<77, 68, 86>>,
      name |-> <<77, 97, 108, 100, 105, 118, 101, 115>>],
     \* MLI: Mali
     [code |-> <<77, 76, 73>>,
      name |-> <<77, 97, 108, 105>>],
     \* MLT: Malta
     [code |-> <<77, 76, 84>>,
      name |-> <<77, 97, 108, 116, 97>>],
     \* MHL: Marshall Islands
     [code |-> <<77, 72, 76>>,
      name |-> <<77, 97, 114, 115, 104, 97, 108, 108, 32, 73, 115, 108, 97, 110, 100, 115>>],
     \* MRT: Mauritania
     [code |-> <<77, 82, 84>>,
      name |-> <<77, 97, 117, 114, 105, 116, 97, 110, 105, 97>>],
     \* MUS: Mauritius
     [code |-> <<77, 85, 83>>,
      name |-> <<77, 97, 117, 114, 105, 116, 105, 117, 115>>],
     \* FSM: Micronesia
     [code |-> <<70, 83, 77>>,
      name |-> <<77, 105, 99, 114, 111, 110, 101, 115, 105, 97>>],
     \* MDA: Moldova
     [code |-> <<77, 68, 65>>,
      name |-> <<77, 111, 108, 100, 111, 118, 97>>],
     \* MCO: Monaco
     [code |-> <<77, 67, 79>>,
      name |-> <<77, 111, 110, 97, 99, 111>>],
     \* MNG: Mongolia
     [code |-> <<77, 78, 71>>,
      name |-> <<77, 111, 110, 103, 111, 108, 105, 97>>],
     \* MNE: Montenegro
     [code |-> <<77, 78, 69>>,
      name |-> <<77, 111, 110, 116, 101, 110, 101, 103, 114, 111>>],
     \* MAR: Morocco
     [code |-> <<77, 65, 82>>,
      name |-> <<77, 111, 114, 111, 99, 99, 111>>],
     \* MOZ: Mozambique
     [code |-> <<77, 79, 90>>,
      name |-> <<77, 111, 122, 97, 109, 98, 105, 113, 117, 101>>],
     \* MMR: Myanmar
     [code |-> <<77, 77, 82>>,
      name |-> <<77, 121, 97, 110, 109, 97, 114>>],
     \* NAM: Namibia
     [code |-> <<78, 65, 77>>,
      name |-> <<78, 97, 109, 105, 98, 105, 97>>],
     \* NRU: Nauru
     [code |-> <<78, 82, 85>>,
      name |-> <<78, 97, 117, 114, 117>>],
     \* NPL: Nepal
     [code |-> <<78, 80, 76>>,
      name |-> <<78, 101, 112, 97, 108>>],
     \* NLD: Netherlands
     [code |-> <<78, 76, 68>>,
      name |-> <<78, 101, 116, 104, 101, 114, 108, 97, 110, 100, 115>>],
     \* NIC: Nicaragua
     [code |-> <<78, 73, 67>>,
      name |-> <<78, 105, 99, 97, 114, 97, 103, 117, 97>>],
     \* NER: Niger
     [code |-> <<78, 69, 82>>,
      name |-> <<78, 105, 103, 101, 114>>],
     \* NGA: Nigeria
     [code |-> <<78, 71, 65>>,
      name |-> <<78, 105, 103, 101, 114, 105, 97>>],
     \* MKD: North Macedonia
     [code |-> <<77, 75, 68>>,
      name |-> <<78, 111, 114, 116, 104, 32, 77, 97, 99, 101, 100, 111, 110, 105, 97>>],
     \* NOR: Norway
     [code |-> <<78, 79, 82>>,
      name |-> <<78, 111, 114, 119, 97, 121>>],
     \* OMN: Oman
     [code |-> <<79, 77, 78>>,
      name |-> <<79, 109, 97, 110>>],
     \* PAK: Pakistan
     [code |-> <<80, 65, 75>>,
      name |-> <<80, 97, 107, 105, 115, 116, 97, 110>>],
     \* PLW: Palau
     [code |-> <<80, 76, 87>>,
      name |-> <<80, 97, 108, 97, 117>>],
     \* PSE: Palestine
     [code |-> <<80, 83, 69>>,
      name |-> <<80, 97, 108, 101, 115, 116, 105, 110, 101>>],
     \* PAN: Panama
     [code |-> <<80, 65, 78>>,
      name |-> <<80, 97, 110, 97, 109, 97>>],
     \* PNG: Papua New Guinea
     [code |-> <<80, 78, 71>>,
      name |-> <<80, 97, 112, 117, 97, 32, 78, 101, 119, 32, 71, 117, 105, 110, 101, 97>>],
     \* PRY: Paraguay
     [code |-> <<80, 82, 89>>,
      name |-> <<80, 97, 114, 97, 103, 117, 97, 121>>],
     \* PER: Peru
     [code |-> <<80, 69, 82>>,
      name |-> <<80, 101, 114, 117>>],
     \* PHL: Philippines
     [code |-> <<80, 72, 76>>,
      name |-> <<80, 104, 105, 108, 105, 112, 112, 105, 110, 101, 115>>],
     \* POL: Poland
     [code |-> <<80, 79, 76>>,
      name |-> <<80, 111, 108, 97, 110, 100>>],
     \* PRT: Portugal
     [code |-> <<80, 82, 84>>,
      name |-> <<80, 111, 114, 116, 117, 103, 97, 108>>],
     \* QAT: Qatar
     [code |-> <<81, 65, 84>>,
      name |-> <<81, 97, 116, 97, 114>>],
     \* ROU: Romania
     [code |-> <<82, 79, 85>>,
      name |-> <<82, 111, 109, 97, 110, 105, 97>>],
     \* RWA: Rwanda
     [code |-> <<82, 87, 65>>,
      name |-> <<82, 119, 97, 110, 100, 97>>],
     \* KNA: Saint Kitts and Nevis
     [code |-> <<75, 78, 65>>,
      name |-> <<83, 97, 105, 110, 116, 32, 75, 105, 116, 116, 115, 32, 97, 110, 100, 32, 78, 101, 118, 105, 115>>],
     \* LCA: Saint Lucia
     [code |-> <<76, 67, 65>>,
      name |-> <<83, 97, 105, 110, 116, 32, 76, 117, 99, 105, 97>>],
     \* VCT: Saint Vincent and the Grenadines
     [code |-> <<86, 67, 84>>,
      name |-> <<83, 97, 105, 110, 116, 32, 86, 105, 110, 99, 101, 110, 116, 32, 97, 110, 100, 32, 116, 104, 101, 32, 71, 114, 101, 110, 97, 100, 105, 110, 101, 115>>],
     \* WSM: Samoa
     [code |-> <<87, 83, 77>>,
      name |-> <<83, 97, 109, 111, 97>>],
     \* SMR: San Marino
     [code |-> <<83, 77, 82>>,
      name |-> <<83, 97, 110, 32, 77, 97, 114, 105, 110, 111>>],
     \* STP: Sao Tome and Principe
     [code |-> <<83, 84, 80>>,
      name |-> <<83, 97, 111, 32, 84, 111, 109, 101, 32, 97, 110, 100, 32, 80, 114, 105, 110, 99, 105, 112, 101>>],
     \* SAU: Saudi Arabia
     [code |-> <<83, 65, 85>>,
      name |-> <<83, 97, 117, 100, 105, 32, 65, 114, 97, 98, 105, 97>>],
     \* SEN: Senegal
     [code |-> <<83, 69, 78>>,
      name |-> <<83, 101, 110, 101, 103, 97, 108>>],
     \* SRB: Serbia
     [code |-> <<83, 82, 66>>,
      name |-> <<83, 101, 114, 98, 105, 97>>],
     \* SYC: Seychelles
     [code |-> <<83, 89, 67>>,
      name |-> <<83, 101, 121, 99, 104, 101, 108, 108, 101, 115>>],
     \* SLE: Sierra Leone
     [code |-> <<83, 76, 69>>,
      name |-> <<83, 105, 101, 114, 114, 97, 32, 76, 101, 111, 110, 101>>],
     \* SGP: Singapore
     [code |-> <<83, 71, 80>>,
      name |-> <<83, 105, 110, 103, 97, 112, 111, 114, 101>>],
     \* SVK: Slovakia
     [code |-> <<83, 86, 75>>,
      name |-> <<83, 108, 111, 118, 97, 107, 105, 97>>],
     \* SVN: Slovenia
     [code |-> <<83, 86, 78>>,
      name |-> <<83, 108, 111, 118, 101, 110, 105, 97>>],
     \* SLB: Solomon Islands
     [code |-> <<83, 76, 66>>,
      name |-> <<83, 111, 108, 111, 109, 111, 110, 32, 73, 115, 108, 97, 110, 100, 115>>],
     \* SOM: Somalia
     [code |-> <<83, 79, 77>>,
      name |-> <<83, 111, 109, 97, 108, 105, 97>>],
     \* ZAF: South Africa
     [code |-> <<90, 65, 70>>,
      name |-> <<83, 111, 117, 116, 104, 32, 65, 102, 114, 105, 99, 97>>],
     \* SSD: South Sudan
     [code |-> <<83, 83, 68>>,
      name |-> <<83, 111, 117, 116, 104, 32, 83, 117, 100, 97, 110>>],
     \* LKA: Sri Lanka
     [code |-> <<76, 75, 65>>,
      name |-> <<83, 114, 105, 32, 76, 97, 110, 107, 97>>],
     \* SDN: Sudan
     [code |-> <<83, 68, 78>>,
      name |-> <<83, 117, 100, 97, 110>>],
     \* SUR: Suriname
     [code |-> <<83, 85, 82>>,
      name |-> <<83, 117, 114, 105, 110, 97, 109, 101>>],
     \* SWE: Sweden
     [code |-> <<83, 87, 69>>,
      name |-> <<83, 119, 101, 100, 101, 110>>],
     \* CHE: Switzerland
     [code |-> <<67, 72, 69>>,
      name |-> <<83, 119, 105, 116, 122, 101, 114, 108, 97, 110, 100>>],
     \* TWN: Taiwan
     [code |-> <<84, 87, 78>>,
      name |-> <<84, 97, 105, 119, 97, 110>>],
     \* TJK: Tajikistan
     [code |-> <<84, 74, 75>>,
      name |-> <<84, 97, 106, 105, 107, 105, 115, 116, 97, 110>>],
     \* TZA: Tanzania
     [code |-> <<84, 90, 65>>,
      name |-> <<84, 97, 110, 122, 97, 110, 105, 97>>],
     \* THA: Thailand
     [code |-> <<84, 72, 65>>,
      name |-> <<84, 104, 97, 105, 108, 97, 110, 100>>],
     \* TLS: Timor-Leste
     [code |-> <<84, 76, 83>>,
      name |-> <<84, 105, 109, 111, 114, 45, 76, 101, 115, 116, 101>>],
     \* TGO: Togo
     [code |-> <<84, 71, 79>>,
      name |-> <<84, 111, 103, 111>>],
     \* TON: Tonga
     [code |-> <<84, 79, 78>>,
      name |-> <<84, 111, 110, 103, 97>>],
     \* TTO: Trinidad and Tobago
     [code |-> <<84, 84, 79>>,
      name |-> <<84, 114, 105, 110, 105, 100, 97, 100, 32, 97, 110, 100, 32, 84, 111, 98, 97, 103, 111>>],
     \* TUN: Tunisia
     [code |-> <<84, 85, 78>>,
      name |-> <<84, 117, 110, 105, 115, 105, 97>>],
     \* TUR: Turkey
     [code |-> <<84, 85, 82>>,
      name |-> <<84, 117, 114, 107, 101, 121>>],
     \* TKM: Turkmenistan
     [code |-> <<84, 75, 77>>,
      name |-> <<84, 117, 114, 107, 109, 101, 110, 105, 115, 116, 97, 110>>],
     \* TUV: Tuvalu
     [code |-> <<84, 85, 86>>,
      name |-> <<84, 117, 118, 97, 108, 117>>],
     \* UGA: Uganda
     [code |-> <<85, 71, 65>>,
      name |-> <<85, 103, 97, 110, 100, 97>>],
     \* UKR: Ukraine
     [code |-> <<85, 75, 82>>,
      name |-> <<85, 107, 114, 97, 105, 110, 101>>],
     \* ARE: United Arab Emirates
     [code |-> <<65, 82, 69>>,
      name |-> <<85, 110, 105, 116, 101, 100, 32, 65, 114, 97, 98, 32, 69, 109, 105, 114, 97, 116, 101, 115>>],
     \* URY: Uruguay
     [code |-> <<85, 82, 89>>,
      name |-> <<85, 114, 117, 103, 117, 97, 121>>],
     \* UZB: Uzbekistan
     [code |-> <<85, 90, 66>>,
      name |-> <<85, 122, 98, 101, 107, 105, 115, 116, 97, 110>>],
     \* VUT: Vanuatu
     [code |-> <<86, 85, 84>>,
      name |-> <<86, 97, 110, 117, 97, 116, 117>>],
     \* VAT: Vatican City
     [code |-> <<86, 65, 84>>,
      name |-> <<86, 97, 116, 105, 99, 97, 110, 32, 67, 105, 116, 121>>],
     \* VEN: Venezuela
     [code |-> <<86, 69, 78>>,
      name |-> <<86, 101, 110, 101, 122, 117, 101, 108, 97>>],
     \* VNM: Vietnam
     [code |-> <<86, 78, 77>>,
      name |-> <<86, 105, 101, 116, 110, 97, 109>>],
     \* YEM: Yemen
     [code |-> <<89, 69, 77>>,
      name |-> <<89, 101, 109, 101, 110>>],
     \* ZMB: Zambia
     [code |-> <<90, 77, 66>>,
      name |-> <<90, 97, 109, 98, 105, 97>>],
     \* ZWE: Zimbabwe
     [code |-> <<90, 87, 69>>,
      name |-> <<90, 105, 109, 98, 97, 98, 119, 101>>]
    }

\* {**COUNTRY_CODES, ...}: no code is listed twice
all_countries == COUNTRY_CODES \cup ExtendedCountries

\* sub in s
Contains(s, sub) ==
    \E k \in 0..(Len(s) - Len(sub)) : SubSeq(s, k + 1, k + Len(sub)) = sub

\* a < b for two texts, character by character
TextLess(a, b) ==
    \E k \in 1..Len(b) :
        /\ \A m \in 1..(k - 1) : m <= Len(a) /\ a[m] = b[m]
        /\ k > Len(a) \/ a[k] < b[k]

\* how many items have a smaller code than a given item
SmallerCodes ==
    [x \in all_countries |->
        Cardinality({y \in all_countries : TextLess(y.code, x.code)})]

\* sorted(all_countries.items()): by code, the codes being distinct; each item
\* goes to the position that follows the items with a smaller code
sorted_all_countries ==
    [k \in 1..Cardinality(all_countries) |->
        CHOOSE x \in all_countries : SmallerCodes[x] = k - 1]

\* an Optional argument: None, or a value
None == [none |-> TRUE]
Some(v) == [none |-> FALSE, value |-> v]

\* search_lower in code.lower() or search_lower in name.lower()
Matches(e, search_lower) ==
    \/ Contains(Lower(e.code), search_lower)
    \/ Contains(Lower(e.name), search_lower)

\* the loop over the sorted items: those that match, in the order of the list
MatchingItems(items, search_lower) ==
    SelectSeq(items, LAMBDA e : Matches(e, search_lower))

\* the list list_country_codes returns
list_country_codes(search) ==
    IF search.none \/ search.value = <<>>
    THEN sorted_all_countries
    ELSE MatchingItems(sorted_all_countries, Lower(search.value))

\* ------------------------------------------------------ inputs of the tools
Ages == {-1, 0, 1, 18, 150, 151}

OfacLists ==
    {<<FALSE, FALSE, FALSE>>, <<TRUE, FALSE, FALSE>>, <<FALSE, TRUE, TRUE>>,
     <<TRUE, TRUE>>, <<TRUE, TRUE, TRUE, TRUE>>}

ToolPatterns ==
    {<<USA>>, <<USA, GBR>>, <<GBR, USA>>, <<IRN, USA, GBR>>, <<USA, ShortCode>>,
     <<LongCode>>}

ToolLens == {0, 1, 2, 3, 10, 11, 30, MAX_LENGTH, MaxListLen}

ToolLists == {Cycle(pat, n) : pat \in ToolPatterns, n \in ToolLens}

\* the characters seeds are built from: a z 0 9 and the seven symbols, then
\* A @ e-acute superscript-two
SeedChars == {97, 122, 48, 57} \cup SeedSymbols \cup {65, 64, 233, 178}

\* longest run of 'a' a seed starts with (one more than the limit of 20)
MaxSeedRun == 21

Seeds ==
    {[k \in 1..n |-> 97] \o tail :
        n \in 0..MaxSeedRun, tail \in {<<>>} \cup {<<c>> : c \in SeedChars}}

\* outcomes of a remote call: the value it returns, or an exception
ExistsOutcomes == {"true", "false", "error"}

\* the ids read_hub_config is called with
Repeat(c, n) == [k \in 1..n |-> c]
\* "0x" and 64 times "a", "A" or "1"
IdLower == Prefix0x \o Repeat(97, 64)
IdUpper == Prefix0x \o Repeat(65, 64)
IdDigits == Prefix0x \o Repeat(49, 64)
\* one digit short, one digit long
IdShort == Prefix0x \o Repeat(97, 63)
IdLong == Prefix0x \o Repeat(97, 65)
\* 66 and 64 hex digits without the prefix
IdNoPrefix == Repeat(97, 66)
IdBare == Repeat(97, 64)
\* "0X" in front of 64 hex digits
IdCapitalX == <<48, 88>> \o Repeat(97, 64)
\* "0x" and 64 times "z"; "0x", 63 times "a" and one "g"
IdNonHex == Prefix0x \o Repeat(122, 64)
IdNonHexEnd == Prefix0x \o Repeat(97, 63) \o <<103>>

ReadIds ==
    {IdLower, IdUpper, IdDigits, IdShort, IdLong, IdNoPrefix, IdBare, IdCapitalX,
     IdNonHex, IdNonHexEnd, Prefix0x, <<>>}

\* a word the packing loop does not produce: the slots "A\0B", "ZZZ", "\0CD"
\* and "E\0\0", and both bytes above the slots set
OddWord ==
    [ZeroWord EXCEPT ![0] = 65, ![2] = 66, ![3] = 90, ![4] = 90, ![5] = 90,
                     ![7] = 67, ![8] = 68, ![9] = 69, ![30] = 255, ![31] = 255]

\* the four words a list of three-character codes is stored in on the ledger
WordsOf(countries) == PackWords(Flatten(countries))

\* the structs the hub returns from getVerificationConfigV2
LedgerStructs ==
    {ConfigStruct(18, <<USA, GBR>>, <<TRUE, FALSE, TRUE>>,
                  WordsOf(<<USA, GBR>>)),
     ConfigStruct(0, <<>>, <<FALSE, FALSE, FALSE>>, WordsOf(<<>>)),
     ConfigStruct(150, Cycle(<<IRN, USA, GBR>>, MAX_LENGTH), <<FALSE, TRUE, FALSE>>,
                  WordsOf(Cycle(<<IRN, USA, GBR>>, MAX_LENGTH))),
     \* an age and a list stored with both flags off
     [olderThanEnabled |-> FALSE, olderThan |-> 18,
      forbiddenCountriesEnabled |-> FALSE,
      forbiddenCountriesListPacked |-> WordsOf(<<IRN>>),
      ofacEnabled |-> <<FALSE, FALSE, TRUE>>],
     \* the list flag on over words of zeros
     [olderThanEnabled |-> TRUE, olderThan |-> 200,
      forbiddenCountriesEnabled |-> TRUE,
      forbiddenCountriesListPacked |-> WordsOf(<<>>),
      ofacEnabled |-> <<TRUE, TRUE, TRUE>>],
     [olderThanEnabled |-> TRUE, olderThan |-> 21,
      forbiddenCountriesEnabled |-> TRUE,
      forbiddenCountriesListPacked |-> <<OddWord, ZeroWord, ZeroWord, OddWord>>,
      ofacEnabled |-> <<FALSE, FALSE, FALSE>>]}

\* outcomes of the struct fetch: a struct, or an exception (transport failure,
\* timeout, a response that does not decode)
FetchOutcomes ==
    {[raised |-> TRUE]} \cup {[raised |-> FALSE, config |-> s] : s \in LedgerStructs}

\* the search terms list_country_codes is called with: None, "", "ir", "IRN",
\* "united", "zzz", "a"
Searches ==
    {None, Some(<<>>), Some(<<105, 114>>), Some(<<73, 82, 78>>),
     Some(<<117, 110, 105, 116, 101, 100>>), Some(<<122, 122, 122>>), Some(<<97>>)}

\* generate_config_id called with an argument left None
NoneAges == {None, Some(0), Some(151)}
NoneLists == {None, Some(<<>>), Some(<<USA>>)}
NoneOfac == {None, Some(DefaultOfac)}

VARIABLES
    codec,      \* the codec applied step by step: stage, input list, words, decoded list
    pc,         \* "idle" before an invocation; "config_exists" while generate_config_id
                \* awaits its remote call; "read_exists" and "read_config" while
                \* read_hub_config awaits its first and its second remote call;
                \* "returned" once the invocation has returned; "raised" once an
                \* exception has left it
    frame,      \* arguments and locals of the running (or last) invocation
    result,     \* what the last completed invocation returned
    rpc,        \* the remote calls the running (or last) invocation issued, in order
    returned,   \* the invocations completed so far, each with what it returned
    cache,      \* GitHubDocsClient.cache: for each path the CachedDocument, if any
    now,        \* what datetime.now() returns
    calls,      \* the fetch_document calls made so far, in the order they started
    requests,   \* the number of HTTP requests the client has issued
    ledger,     \* the configurations the hubs store, where a specification follows them
    registry,   \* the module-level dict CELO_NETWORKS
    objects,    \* the list objects a direct caller passes, and the module-level ones
    parked      \* the invocations suspended at a remote call while another one runs

vars == <<codec, pc, frame, result, rpc, returned, cache, now, calls, requests,
          ledger, registry, objects, parked>>

tool_vars == <<pc, frame, result, rpc, returned>>
docs_vars == <<cache, now, calls, requests>>
world_vars == <<ledger, registry, objects, parked>>

NoResult == [pending |-> TRUE]

\* ------------------------------------------------------ GitHubDocsClient
\* the paths documents are fetched by, and the contents GitHub may serve
Paths == {"README.md", "sdk/README.md"}
Contents == {"v1", "v2"}

\* number of fetch_document calls followed
MaxFetches == 2
\* the clock stops at MaxNow
MaxNow == 2
\* self.cache_ttl, in ticks of the clock (60 minutes by default)
cache_ttl == 1

\* no CachedDocument under a path / CachedDocument(content, fetched_at, path)
NotCached == [present |-> FALSE, content |-> "-", fetched_at |-> 0]
CachedDocument(content, fetched_at) ==
    [present |-> TRUE, content |-> content, fetched_at |-> fetched_at]

\* _is_cache_valid
IsCacheValid(cached) == now - cached.fetched_at < cache_ttl

\* what the awaited GET, followed by raise_for_status, json() and the base64
\* and UTF-8 decoding, comes to: a base64 document, a body whose encoding is
\* not base64, status 404, another error status, or any other exception (a
\* transport error, a timeout, a body that is not JSON or does not decode)
Responses ==
    {[kind |-> "base64", content |-> c] : c \in Contents}
    \cup {[kind |-> k, content |-> "-"] :
              k \in {"not_base64", "status_404", "status_error", "exception"}}

\* what a fetch_document call came to: a text, None, or an exception leaving it
Content(c) == [kind |-> "content", content |-> c]
NoContent == [kind |-> "None", content |-> "-"]
Pending == [kind |-> "pending", content |-> "-"]
Reraised == [kind |-> "HTTPStatusError", content |-> "-"]

DocsInit ==
    /\ cache = [p \in Paths |-> NotCached]
    /\ now = 0
    /\ calls = <<>>
    /\ requests = 0

\* fetch_document up to its await of client.get: the cache test, then the request
FetchDocument(path) ==
    /\ Len(calls) < MaxFetches
    /\ IF cache[path].present /\ IsCacheValid(cache[path])
       THEN /\ calls' = Append(calls, [path |-> path, pc |-> "returned",
                                       requested |-> FALSE, response |-> "-",
                                       seen |-> cache[path],
                                       value |-> Content(cache[path].content)])
            /\ requests' = requests
       ELSE /\ calls' = Append(calls, [path |-> path, pc |-> "awaiting",
                                       requested |-> TRUE, response |-> "-",
                                       seen |-> cache[path], value |-> Pending])
            /\ requests' = requests + 1
    /\ UNCHANGED <<cache, now>>

\* mutant: a fetch that got status 404 drops the entry of its path
FetchResumeDrops(c, response) ==
    /\ c \in 1..Len(calls)
    /\ calls[c].pc = "awaiting"
    /\ LET path == calls[c].path
           done(value) == [calls EXCEPT ![c].pc = "returned", ![c].value = value,
                                        ![c].response = response.kind,
                                        ![c].seen = cache[path]]
       IN CASE response.kind = "base64" ->
                  /\ cache' = [cache EXCEPT ![path] = CachedDocument(response.content, now)]
                  /\ calls' = done(Content(response.content))
            [] response.kind = "not_base64" ->
                  /\ calls' = done(NoContent)
                  /\ UNCHANGED cache
            [] response.kind = "status_404" ->
                  /\ calls' = done(NoContent)
                  /\ cache' = [cache EXCEPT ![path] = NotCached]
            [] response.kind = "status_error" ->
                  /\ calls' = [done(Reraised) EXCEPT ![c].pc = "raised"]
                  /\ UNCHANGED cache
            [] response.kind = "exception" ->
                  /\ calls' = done(IF cache[path].present
                                   THEN Content(cache[path].content) ELSE NoContent)
                  /\ UNCHANGED cache
    /\ UNCHANGED <<now, requests>>

\* fetch_document from the point where the awaited GET ends
FetchResume(c, response) ==
    /\ c \in 1..Len(calls)
    /\ calls[c].pc = "awaiting"
    /\ LET path == calls[c].path
           done(value) == [calls EXCEPT ![c].pc = "returned", ![c].value = value,
                                        ![c].response = response.kind,
                                        ![c].seen = cache[path]]
       IN CASE response.kind = "base64" ->
                  /\ cache' = [cache EXCEPT ![path] = CachedDocument(response.content, now)]
                  /\ calls' = done(Content(response.content))
            [] response.kind = "not_base64" ->
                  /\ calls' = done(NoContent)
                  /\ UNCHANGED cache
            [] response.kind = "status_404" ->
                  /\ calls' = done(NoContent)
                  /\ UNCHANGED cache
            [] response.kind = "status_error" ->
                  /\ calls' = [done(Reraised) EXCEPT ![c].pc = "raised"]
                  /\ UNCHANGED cache
            [] response.kind = "exception" ->
                  /\ calls' = done(IF cache[path].present
                                   THEN Content(cache[path].content) ELSE NoContent)
                  /\ UNCHANGED cache
    /\ UNCHANGED <<now, requests>>

\* clear_cache
ClearCache ==
    /\ cache' = [p \in Paths |-> NotCached]
    /\ UNCHANGED <<now, calls, requests>>

\* time passes
Tick ==
    /\ now < MaxNow
    /\ now' = now + 1
    /\ UNCHANGED <<cache, calls, requests>>

\* the ledger of a specification that lets any answer come from the hubs
Unobserved == [observed |-> FALSE]

\* the list objects: the two lists a caller passes to generate_config_id, the
\* default lists of its signature, and the country-name table
Objects(excluded_countries, ofac_enabled) ==
    [excluded_countries |-> excluded_countries,
     ofac_enabled |-> ofac_enabled,
     default_excluded_countries |-> <<>>,
     default_ofac_enabled |-> DefaultOfac,
     COUNTRY_CODES |-> COUNTRY_CODES]

WorldInit ==
    /\ ledger = Unobserved
    /\ registry = CELO_NETWORKS
    /\ objects = Objects(<<>>, DefaultOfac)
    /\ parked = <<>>

ToolInit ==
    /\ pc = "idle"
    /\ frame = [op |-> "none"]
    /\ result = NoResult
    /\ rpc = <<>>
    /\ returned = <<>>
    /\ DocsInit

\* ---------------------------------------- words as a ledger may hold them
\* unpack_countries_from_config takes whatever four words the hub returns,
\* not only words that generate_config_id packed
SlotBytes == {0, 65, 255}

SlotPatterns == [1..CodeLen -> SlotBytes]

\* the word whose even slots hold p, whose odd slots hold q, and whose two
\* bytes above the ten slots hold top
SlotWord(p, q, top) ==
    [k \in 0..(WordBytes - 1) |->
        IF k >= SlotsPerWord * CodeLen THEN top
        ELSE IF (k \div CodeLen) % 2 = 0 THEN p[(k % CodeLen) + 1]
        ELSE q[(k % CodeLen) + 1]]

StoredWords == {SlotWord(p, q, top) : p \in SlotPatterns, q \in SlotPatterns,
                                      top \in {0, 255}}

StoredLists == {<<w, ZeroWord, OddWord, w>> : w \in StoredWords}

\* ------------------------------------------------ the codec, step by step
CodecInit ==
    /\ codec \in {[stage |-> "input", countries |-> cs, packed |-> Ok(<<>>),
                   unpacked |-> <<>>] : cs \in CountryLists}
               \cup {[stage |-> "stored", countries |-> <<>>, packed |-> Ok(ws),
                      unpacked |-> <<>>] : ws \in StoredLists}
    /\ ToolInit
    /\ WorldInit

Pack ==
    /\ codec.stage = "input"
    /\ codec' = [codec EXCEPT !.stage = "packed", !.packed = PackCountries(codec.countries)]
    /\ UNCHANGED <<tool_vars, docs_vars, world_vars>>

Unpack ==
    /\ codec.stage = "packed"
    /\ codec.packed.ok
    /\ codec' = [codec EXCEPT !.stage = "unpacked",
                              !.unpacked = unpack_countries_from_config(codec.packed.value)]
    /\ UNCHANGED <<tool_vars, docs_vars, world_vars>>

\* unpack_countries_from_config on words that came from the ledger
Decode ==
    /\ codec.stage = "stored"
    /\ codec' = [codec EXCEPT !.stage = "decoded",
                              !.unpacked = unpack_countries_from_config(codec.packed.value)]
    /\ UNCHANGED <<tool_vars, docs_vars, world_vars>>

CodecNext == Pack \/ Unpack \/ Decode

SpecCodec == CodecInit /\ [][CodecNext]_vars

\* an exception that leaves the tool function, with the line that raised it
Raised(exception, line) == [raised |-> exception, line |-> line]

\* ------------------------------------------------------ tool invocations
\* generate_scope_hash: no remote call, returns at once
GenerateScopeHash(address_or_url, scope_seed) ==
    /\ pc \in {"idle", "returned"}
    /\ frame' = [op |-> "generate_scope_hash", address_or_url |-> address_or_url,
                 scope_seed |-> scope_seed]
    /\ rpc' = <<>>
    /\ IF /\ EndpointErrors(address_or_url) \o SeedErrors(scope_seed) = <<>>
          /\ ~Utf8Encodable(Lower(address_or_url) \o scope_seed)
       THEN /\ result' = Raised("UnicodeEncodeError", 136)
            /\ pc' = "raised"
       ELSE /\ result' = generate_scope_hash(address_or_url, scope_seed)
            /\ pc' = "returned"

\* generate_config_id up to its remote call: validation, packing, encoding,
\* hashing, then verificationConfigV2Exists(config_id) is issued
GenerateConfigIdCall(minimum_age, excluded_countries, ofac_enabled, network) ==
    /\ pc \in {"idle", "returned"}
    /\ LET args == [op |-> "generate_config_id", minimum_age |-> minimum_age,
                    excluded_countries |-> excluded_countries,
                    ofac_supplied |-> ofac_enabled, network |-> network]
           ofac == EffectiveOfac(ofac_enabled)
       IN IF AgeRejected(minimum_age)
          THEN /\ frame' = args
               /\ result' = [error |-> [msg |-> "Minimum age must be between 0 and 150"]]
               /\ rpc' = <<>>
               /\ pc' = "returned"
          ELSE \E packed \in {PackCountries(excluded_countries)} :
               IF ~packed.ok
               THEN /\ frame' = args
                    /\ result' = [error |-> packed.error]
                    /\ rpc' = <<>>
                    /\ pc' = "returned"
               ELSE \E config \in {ConfigStruct(minimum_age, excluded_countries, ofac,
                                                packed.value)} :
                    \E packed_data \in {EncodePacked(config)} :
                    \E config_id \in {KeccakHex(packed_data)} :
                       /\ frame' = [op |-> "generate_config_id",
                                    minimum_age |-> minimum_age,
                                    excluded_countries |-> excluded_countries,
                                    ofac_supplied |-> ofac_enabled, network |-> network,
                                    ofac_enabled |-> ofac, config |-> config,
                                    packed_data |-> packed_data, config_id |-> config_id]
                       /\ result' = NoResult
                       /\ rpc' = <<[fn |-> "verificationConfigV2Exists",
                                    rpc |-> registry[network].rpc,
                                    to |-> registry[network].hub,
                                    arg |-> config_id, reply |-> "pending"]>>
                       /\ pc' = "config_exists"

\* generate_config_id with at least one of its Optional arguments None: the
\* comparison of the age at line 160, len(ofac_enabled) at line 163 and
\* len(excluded_countries) at line 170 raise TypeError on None
GenerateConfigIdNone(minimum_age, excluded_countries, ofac_enabled, network) ==
    /\ pc \in {"idle", "returned"}
    /\ minimum_age.none \/ excluded_countries.none \/ ofac_enabled.none
    /\ frame' = [op |-> "generate_config_id(None)",
                 optional |-> [minimum_age |-> minimum_age,
                               excluded_countries |-> excluded_countries,
                               ofac_enabled |-> ofac_enabled],
                 network |-> network]
    /\ rpc' = <<>>
    /\ IF minimum_age.none
       THEN /\ result' = Raised("TypeError", 160)
            /\ pc' = "raised"
       ELSE IF AgeRejected(minimum_age.value)
       THEN /\ result' = [error |-> [msg |-> "Minimum age must be between 0 and 150"]]
            /\ pc' = "returned"
       ELSE IF ofac_enabled.none
       THEN /\ result' = Raised("TypeError", 163)
            /\ pc' = "raised"
       ELSE /\ result' = Raised("TypeError", 170)
            /\ pc' = "raised"

\* the existence check returns or raises; the rest of generate_config_id runs
ExistsReplyWith(f, outcome) ==
    /\ pc = "config_exists"
    /\ LET exists_on_chain == IF outcome = "error" THEN FALSE ELSE outcome = "true"
       IN result' = ConfigResult(f, exists_on_chain)
    /\ rpc' = [rpc EXCEPT ![Len(rpc)].reply = outcome]
    /\ pc' = "returned"
    /\ UNCHANGED frame

\* the same, for lists that no one changes while the call is awaited: what the
\* names are bound to is what the frame holds
ExistsReply(outcome) == ExistsReplyWith(frame, outcome)

\* mutant: the existence check and the struct fetch are issued together
ReadHubConfigCallBothAtOnce(config_id, network) ==
    /\ pc \in {"idle", "returned"}
    /\ frame' = [op |-> "read_hub_config", config_id |-> config_id, network |-> network]
    /\ IF ConfigIdRefused(config_id)
       THEN /\ result' = ReadRefusal
            /\ rpc' = <<>>
            /\ pc' = "returned"
       ELSE IF ~IsEncodableBytes32(config_id)
       THEN /\ result' = ReadFailure(config_id, network, "ValidationError")
            /\ rpc' = <<>>
            /\ pc' = "returned"
       ELSE /\ result' = NoResult
            /\ rpc' = <<[fn |-> "getVerificationConfigV2",
                         rpc |-> registry[network].rpc,
                         to |-> registry[network].hub,
                         arg |-> config_id, reply |-> "pending"],
                        [fn |-> "verificationConfigV2Exists",
                         rpc |-> registry[network].rpc,
                         to |-> registry[network].hub,
                         arg |-> config_id, reply |-> "pending"]>>
            /\ pc' = "read_exists"

\* read_hub_config up to its first remote call: the test of the id, then
\* verificationConfigV2Exists(config_id) is issued
ReadHubConfigCall(config_id, network) ==
    /\ pc \in {"idle", "returned"}
    /\ frame' = [op |-> "read_hub_config", config_id |-> config_id, network |-> network]
    /\ IF ConfigIdRefused(config_id)
       THEN /\ result' = ReadRefusal
            /\ rpc' = <<>>
            /\ pc' = "returned"
       ELSE IF ~IsEncodableBytes32(config_id)
       THEN /\ result' = ReadFailure(config_id, network, "ValidationError")
            /\ rpc' = <<>>
            /\ pc' = "returned"
       ELSE /\ result' = NoResult
            /\ rpc' = <<[fn |-> "verificationConfigV2Exists",
                         rpc |-> registry[network].rpc,
                         to |-> registry[network].hub,
                         arg |-> config_id, reply |-> "pending"]>>
            /\ pc' = "read_exists"

\* mutant: the struct is fetched whatever the existence check answered
ReadExistsReplyFetchesAnyway(outcome) ==
    /\ pc = "read_exists"
    /\ IF outcome = "error"
       THEN /\ result' = ReadFailure(frame.config_id, frame.network, "Exception")
            /\ rpc' = [rpc EXCEPT ![Len(rpc)].reply = outcome]
            /\ pc' = "returned"
       ELSE /\ result' = NoResult
            /\ rpc' = Append([rpc EXCEPT ![Len(rpc)].reply = outcome],
                             [fn |-> "getVerificationConfigV2",
                              rpc |-> registry[frame.network].rpc,
                              to |-> registry[frame.network].hub,
                              arg |-> frame.config_id, reply |-> "pending"])
            /\ pc' = "read_config"
    /\ UNCHANGED frame

\* mutant: the struct is fetched from the mainnet hub whatever the network
ReadExistsReplyMainnetHub(outcome) ==
    /\ pc = "read_exists"
    /\ IF outcome = "error"
       THEN /\ result' = ReadFailure(frame.config_id, frame.network, "Exception")
            /\ rpc' = [rpc EXCEPT ![Len(rpc)].reply = outcome]
            /\ pc' = "returned"
       ELSE IF outcome = "false"
       THEN /\ result' = ReadNotFound(frame.config_id, frame.network)
            /\ rpc' = [rpc EXCEPT ![Len(rpc)].reply = outcome]
            /\ pc' = "returned"
       ELSE /\ result' = NoResult
            /\ rpc' = Append([rpc EXCEPT ![Len(rpc)].reply = outcome],
                             [fn |-> "getVerificationConfigV2",
                              rpc |-> registry["mainnet"].rpc,
                              to |-> registry["mainnet"].hub,
                              arg |-> frame.config_id, reply |-> "pending"])
            /\ pc' = "read_config"
    /\ UNCHANGED frame

\* the existence check of read_hub_config returns or raises; on true,
\* getVerificationConfigV2(config_id) is issued
ReadExistsReply(outcome) ==
    /\ pc = "read_exists"
    /\ IF outcome = "error"
       THEN /\ result' = ReadFailure(frame.config_id, frame.network, "Exception")
            /\ rpc' = [rpc EXCEPT ![Len(rpc)].reply = outcome]
            /\ pc' = "returned"
       ELSE IF outcome = "false"
       THEN /\ result' = ReadNotFound(frame.config_id, frame.network)
            /\ rpc' = [rpc EXCEPT ![Len(rpc)].reply = outcome]
            /\ pc' = "returned"
       ELSE /\ result' = NoResult
            \* the second call goes through the hub_contract object of the first
            /\ rpc' = Append([rpc EXCEPT ![Len(rpc)].reply = outcome],
                             [fn |-> "getVerificationConfigV2",
                              rpc |-> rpc[Len(rpc)].rpc,
                              to |-> rpc[Len(rpc)].to,
                              arg |-> frame.config_id, reply |-> "pending"])
            /\ pc' = "read_config"
    /\ UNCHANGED frame

\* the struct fetch returns or raises; the rest of read_hub_config runs
ReadConfigReply(outcome) ==
    /\ pc = "read_config"
    /\ IF outcome.raised
       THEN /\ result' = ReadFailure(frame.config_id, frame.network, "Exception")
            /\ rpc' = [rpc EXCEPT ![Len(rpc)].reply = "error"]
            /\ UNCHANGED frame
       ELSE /\ result' = ReadReport(frame.config_id, frame.network, outcome.config)
            /\ rpc' = [rpc EXCEPT ![Len(rpc)].reply = "struct"]
            /\ frame' = [op |-> "read_hub_config", config_id |-> frame.config_id,
                         network |-> frame.network, config |-> outcome.config]
    /\ pc' = "returned"

\* list_country_codes: no remote call, returns at once
ListCountryCodes(search) ==
    /\ pc \in {"idle", "returned"}
    /\ frame' = [op |-> "list_country_codes", search |-> search]
    /\ result' = [countries |-> list_country_codes(search)]
    /\ rpc' = <<>>
    /\ pc' = "returned"

\* ------------------------------------------------------- one invocation
\* The tools keep nothing between invocations, so Spec follows a single
\* invocation, with arguments from the full input sets, from a fresh process.
ScopeHashTool ==
    /\ pc = "idle"
    /\ \E address_or_url \in Endpoints, scope_seed \in Seeds :
          GenerateScopeHash(address_or_url, scope_seed)
    /\ UNCHANGED <<codec, returned, docs_vars, world_vars>>

ConfigIdTool ==
    /\ pc = "idle"
    /\ \E minimum_age \in Ages, excluded_countries \in ToolLists,
          ofac_enabled \in OfacLists, network \in Networks :
          GenerateConfigIdCall(minimum_age, excluded_countries, ofac_enabled, network)
    /\ UNCHANGED <<codec, returned, docs_vars, world_vars>>

ConfigIdExists ==
    /\ \E outcome \in ExistsOutcomes : ExistsReply(outcome)
    /\ UNCHANGED <<codec, returned, docs_vars, world_vars>>

Init ==
    /\ codec = [stage |-> "none"]
    /\ ToolInit
    /\ WorldInit

ReadConfigTool ==
    /\ pc = "idle"
    /\ \E config_id \in ReadIds, network \in Networks :
          ReadHubConfigCall(config_id, network)
    /\ UNCHANGED <<codec, returned, docs_vars, world_vars>>

ReadConfigExists ==
    /\ \E outcome \in ExistsOutcomes : ReadExistsReply(outcome)
    /\ UNCHANGED <<codec, returned, docs_vars, world_vars>>

ReadConfigFetch ==
    /\ \E outcome \in FetchOutcomes : ReadConfigReply(outcome)
    /\ UNCHANGED <<codec, returned, docs_vars, world_vars>>

ConfigIdNoneTool ==
    /\ pc = "idle"
    /\ \E minimum_age \in NoneAges, excluded_countries \in NoneLists,
          ofac_enabled \in NoneOfac, network \in Networks :
          GenerateConfigIdNone(minimum_age, excluded_countries, ofac_enabled, network)
    /\ UNCHANGED <<codec, returned, docs_vars, world_vars>>

CountryCodesTool ==
    /\ pc = "idle"
    /\ \E search \in Searches : ListCountryCodes(search)
    /\ UNCHANGED <<codec, returned, docs_vars, world_vars>>

Next ==
    \/ ScopeHashTool
    \/ ConfigIdTool
    \/ ConfigIdNoneTool
    \/ ConfigIdExists
    \/ CountryCodesTool
    \/ ReadConfigTool
    \/ ReadConfigExists
    \/ ReadConfigFetch

Spec == Init /\ [][Next]_vars

\* Spec with every issued remote call eventually answered: it returns a value
\* or fails (the transport's timeout ends a call that gets no answer)
SpecLive ==
    /\ Init
    /\ [][Next]_vars
    /\ WF_vars(ConfigIdExists)
    /\ WF_vars(ReadConfigExists)
    /\ WF_vars(ReadConfigFetch)

\* ------------------------------------------------ invocations in a row
\* SpecPair follows MaxCalls invocations one after the other and keeps what
\* each returned, with arguments from small sets.
PairAges == {0, 18}
PairLists == {<<>>, <<USA, GBR>>, <<GBR, USA>>}
PairOfac == {<<FALSE, FALSE, FALSE>>}
PairEndpoints == {HubLower, HubChecksum, UrlShort, UrlShortA}
PairSeeds == {<<97>>, <<97, 49>>, <<97, 97>>}

\* the invocation that has just returned, with what it returned
Completed == [frame |-> frame', result |-> result', rpc |-> rpc']

PairScopeHashTool ==
    /\ Len(returned) < MaxCalls
    /\ \E address_or_url \in PairEndpoints, scope_seed \in PairSeeds :
          GenerateScopeHash(address_or_url, scope_seed)
    /\ returned' = Append(returned, Completed)
    /\ UNCHANGED <<codec, docs_vars, world_vars>>

PairConfigIdTool ==
    /\ Len(returned) < MaxCalls
    /\ \E minimum_age \in PairAges, excluded_countries \in PairLists,
          ofac_enabled \in PairOfac, network \in Networks :
          GenerateConfigIdCall(minimum_age, excluded_countries, ofac_enabled, network)
    /\ returned' = IF pc' = "returned" THEN Append(returned, Completed) ELSE returned
    /\ UNCHANGED <<codec, docs_vars, world_vars>>

PairConfigIdExists ==
    /\ \E outcome \in ExistsOutcomes : ExistsReply(outcome)
    /\ returned' = Append(returned, Completed)
    /\ UNCHANGED <<codec, docs_vars, world_vars>>

PairNext == PairScopeHashTool \/ PairConfigIdTool \/ PairConfigIdExists

SpecPair == Init /\ [][PairNext]_vars

\* ------------------------------------------- the documentation client
\* SpecDocs follows one GitHubDocsClient: up to MaxFetches fetch_document calls,
\* which suspend at their HTTP request and resume in any order, with
\* clear_cache and the passing of time in between.
DocsFetch ==
    /\ \E path \in Paths : FetchDocument(path)
    /\ UNCHANGED <<codec, tool_vars, world_vars>>

DocsResume ==
    /\ \E c \in 1..Len(calls), response \in Responses : FetchResume(c, response)
    /\ UNCHANGED <<codec, tool_vars, world_vars>>

DocsClear ==
    /\ ClearCache
    /\ UNCHANGED <<codec, tool_vars, world_vars>>

DocsTick ==
    /\ Tick
    /\ UNCHANGED <<codec, tool_vars, world_vars>>

DocsNext == DocsFetch \/ DocsResume \/ DocsClear \/ DocsTick

SpecDocs == Init /\ [][DocsNext]_vars

\* ------------------------------------------------------------ the ledger
\* SpecLedger follows invocations in a row together with what the hubs
\* store: the existence check and the struct fetch answer from the ledger, or
\* fail.

\* the policies SpecLedger works with, each with its config id as text: "0x"
\* and the 64 hex digits of keccak256 of its packed_data
PolicyDigests ==
    {
     \* "0xb26cf7b8241189fc0e21080899fcb88ff11b8d1e58eb1eded5db28ebdcb0e718"
     [minimum_age |-> 0, excluded_countries |-> <<>>,
      ofac_enabled |-> <<FALSE, FALSE, FALSE>>,
      hex |-> <<48, 120, 98, 50, 54, 99, 102, 55, 98, 56, 50, 52, 49, 49, 56, 57, 102, 99, 48, 101, 50, 49, 48, 56, 48, 56, 57, 57, 102, 99, 98, 56, 56, 102, 102, 49, 49, 98, 56, 100, 49, 101, 53, 56, 101, 98, 49, 101, 100, 101, 100, 53, 100, 98, 50, 56, 101, 98, 100, 99, 98, 48, 101, 55, 49, 56>>],
     \* "0x15af9338a5e96301d278842abae35603981b8702e893c318d2526fb450d448b3"
     [minimum_age |-> 0, excluded_countries |-> <<GBR, USA>>,
      ofac_enabled |-> <<TRUE, FALSE, TRUE>>,
      hex |-> <<48, 120, 49, 53, 97, 102, 57, 51, 51, 56, 97, 53, 101, 57, 54, 51, 48, 49, 100, 50, 55, 56, 56, 52, 50, 97, 98, 97, 101, 51, 53, 54, 48, 51, 57, 56, 49, 98, 56, 55, 48, 50, 101, 56, 57, 51, 99, 51, 49, 56, 100, 50, 53, 50, 54, 102, 98, 52, 53, 48, 100, 52, 52, 56, 98, 51>>],
     \* "0x44903aeb579cf115dda3fbd00b443c45254d8daaebc591769cac390a564548b8"
     [minimum_age |-> 0, excluded_countries |-> Cycle(<<IRN, USA, GBR>>, MAX_LENGTH),
      ofac_enabled |-> <<FALSE, FALSE, FALSE>>,
      hex |-> <<48, 120, 52, 52, 57, 48, 51, 97, 101, 98, 53, 55, 57, 99, 102, 49, 49, 53, 100, 100, 97, 51, 102, 98, 100, 48, 48, 98, 52, 52, 51, 99, 52, 53, 50, 53, 52, 100, 56, 100, 97, 97, 101, 98, 99, 53, 57, 49, 55, 54, 57, 99, 97, 99, 51, 57, 48, 97, 53, 54, 52, 53, 52, 56, 98, 56>>],
     \* "0x5a4b30fa8d4b5e0959f274a22bc68d1fa0378c44226ac24bededda893f439714"
     [minimum_age |-> 150, excluded_countries |-> <<>>,
      ofac_enabled |-> <<TRUE, FALSE, TRUE>>,
      hex |-> <<48, 120, 53, 97, 52, 98, 51, 48, 102, 97, 56, 100, 52, 98, 53, 101, 48, 57, 53, 57, 102, 50, 55, 52, 97, 50, 50, 98, 99, 54, 56, 100, 49, 102, 97, 48, 51, 55, 56, 99, 52, 52, 50, 50, 54, 97, 99, 50, 52, 98, 101, 100, 101, 100, 100, 97, 56, 57, 51, 102, 52, 51, 57, 55, 49, 52>>],
     \* "0x707034d42ef82e740e92da3c7d109e94f7ffa55925c91d992c8ad7365dd2a530"
     [minimum_age |-> 150, excluded_countries |-> <<GBR, USA>>,
      ofac_enabled |-> <<FALSE, FALSE, FALSE>>,
      hex |-> <<48, 120, 55, 48, 55, 48, 51, 52, 100, 52, 50, 101, 102, 56, 50, 101, 55, 52, 48, 101, 57, 50, 100, 97, 51, 99, 55, 100, 49, 48, 57, 101, 57, 52, 102, 55, 102, 102, 97, 53, 53, 57, 50, 53, 99, 57, 49, 100, 57, 57, 50, 99, 56, 97, 100, 55, 51, 54, 53, 100, 100, 50, 97, 53, 51, 48>>],
     \* "0x6b66e871a1e905947b6f872d6656372fbb6f5e7883e700c53ece041fbca0d92a"
     [minimum_age |-> 150, excluded_countries |-> Cycle(<<IRN, USA, GBR>>, MAX_LENGTH),
      ofac_enabled |-> <<TRUE, FALSE, TRUE>>,
      hex |-> <<48, 120, 54, 98, 54, 54, 101, 56, 55, 49, 97, 49, 101, 57, 48, 53, 57, 52, 55, 98, 54, 102, 56, 55, 50, 100, 54, 54, 53, 54, 51, 55, 50, 102, 98, 98, 54, 102, 53, 101, 55, 56, 56, 51, 101, 55, 48, 48, 99, 53, 51, 101, 99, 101, 48, 52, 49, 102, 98, 99, 97, 48, 100, 57, 50, 97>>]
    }

\* config_id as the text of its digits
KnownDigests ==
    {[config_id |-> KeccakHex(EncodePacked(ConfigStruct(e.minimum_age,
                                  e.excluded_countries, e.ofac_enabled,
                                  WordsOf(e.excluded_countries)))),
      hex |-> e.hex] : e \in PolicyDigests}

HexText(config_id) == (CHOOSE e \in KnownDigests : e.config_id = config_id).hex

\* what a hub holds once the policy p has been deployed on it: under the id
\* of p, the config dict that generate_config_id builds for p
Deployed(p, network) ==
    [network |-> network, config_id |-> p.hex,
     config |-> ConfigStruct(p.minimum_age, p.excluded_countries,
                             EffectiveOfac(p.ofac_enabled),
                             PackCountries(p.excluded_countries).value)]

\* a struct that no generate_config_id built, under an id of its own
Foreign ==
    [network |-> "mainnet", config_id |-> IdLower,
     config |-> [olderThanEnabled |-> TRUE, olderThan |-> 21,
                 forbiddenCountriesEnabled |-> TRUE,
                 forbiddenCountriesListPacked |-> <<OddWord, ZeroWord, ZeroWord, OddWord>>,
                 ofacEnabled |-> <<FALSE, FALSE, FALSE>>]]

\* what the hubs may hold: nothing, the foreign struct, one deployed policy,
\* or one policy on each network
Ledgers ==
    {{}, {Foreign}}
    \cup {{Deployed(p, network)} : p \in PolicyDigests, network \in Networks}
    \cup {{Deployed(p, "mainnet"), Deployed(q, "testnet"), Foreign} :
             p \in PolicyDigests, q \in {r \in PolicyDigests : r.minimum_age = 0}}

LedgerInit ==
    /\ codec = [stage |-> "none"]
    /\ ToolInit
    /\ ledger \in Ledgers
    /\ registry = CELO_NETWORKS
    /\ objects = Objects(<<>>, DefaultOfac)
    /\ parked = <<>>

\* the entries a hub holds under an id
Stored(network, config_id) ==
    {e \in ledger : e.network = network /\ e.config_id = config_id}

\* verificationConfigV2Exists as the hub answers it
HubExists(network, config_id) ==
    IF Stored(network, config_id) # {} THEN "true" ELSE "false"

LedgerScopeHashTool ==
    /\ pc = "idle"
    /\ GenerateScopeHash(HubChecksum, <<97>>)
    /\ UNCHANGED <<codec, returned, docs_vars, world_vars>>

LedgerCountryCodesTool ==
    /\ pc = "idle"
    /\ ListCountryCodes(Some(<<105, 114>>))
    /\ UNCHANGED <<codec, returned, docs_vars, world_vars>>

LedgerConfigIdTool ==
    /\ pc = "idle"
    /\ \E p \in PolicyDigests, network \in Networks :
          GenerateConfigIdCall(p.minimum_age, p.excluded_countries, p.ofac_enabled,
                               network)
    /\ UNCHANGED <<codec, returned, docs_vars, world_vars>>

LedgerConfigIdExists ==
    /\ pc = "config_exists"
    /\ \E outcome \in {HubExists(frame.network, HexText(frame.config_id)), "error"} :
          ExistsReply(outcome)
    /\ UNCHANGED <<codec, returned, docs_vars, world_vars>>

\* the ids read_hub_config is called with: the stored ones, a well-formed id
\* and a malformed one
LedgerIds == {e.config_id : e \in ledger} \cup {IdLower, IdShort}

LedgerReadTool ==
    /\ pc = "idle"
    /\ \E config_id \in LedgerIds, network \in Networks :
          ReadHubConfigCall(config_id, network)
    /\ UNCHANGED <<codec, returned, docs_vars, world_vars>>

LedgerReadExists ==
    /\ pc = "read_exists"
    /\ \E outcome \in {HubExists(frame.network, frame.config_id), "error"} :
          ReadExistsReply(outcome)
    /\ UNCHANGED <<codec, returned, docs_vars, world_vars>>

LedgerReadFetch ==
    /\ pc = "read_config"
    /\ \E outcome \in {[raised |-> TRUE]}
                      \cup {[raised |-> FALSE, config |-> e.config] :
                               e \in Stored(frame.network, frame.config_id)} :
          ReadConfigReply(outcome)
    /\ UNCHANGED <<codec, returned, docs_vars, world_vars>>

\* the caller has the result; the frame of the invocation is gone
LedgerCallOver ==
    /\ pc = "returned"
    /\ pc' = "idle"
    /\ frame' = [op |-> "none"]
    /\ result' = NoResult
    /\ rpc' = <<>>
    /\ UNCHANGED <<codec, returned, docs_vars, world_vars>>

LedgerNext ==
    \/ LedgerCallOver
    \/ LedgerScopeHashTool
    \/ LedgerCountryCodesTool
    \/ LedgerConfigIdTool
    \/ LedgerConfigIdExists
    \/ LedgerReadTool
    \/ LedgerReadExists
    \/ LedgerReadFetch

SpecLedger == LedgerInit /\ [][LedgerNext]_vars

\* ------------------------------------------------ concurrent invocations
\* SpecConc follows two tasks that call generate_config_id, with the same two
\* list objects, and read_hub_config: while one invocation waits for a remote
\* call the other task may run. It follows MaxCalls invocations and keeps what
\* each returned.

\* mutant: countries += [''] * (MAX_LENGTH - len(countries)), in place
CountriesAfterExtend(countries) ==
    countries \o [k \in 1..(MAX_LENGTH - Len(countries)) |-> <<>>]

\* the caller's list after format_countries_list: padded is a new list
\* (countries + [...]), the list passed in is only read
CountriesAfterFormat(countries) == countries

\* the caller's list after the length test of generate_config_id: the name
\* ofac_enabled is bound to a new list, the list passed in is only read
OfacAfterTest(ofac_enabled) == ofac_enabled

\* the list objects once generate_config_id has run up to its remote call:
\* format_countries_list reaches its padding for a non-empty list that passes
\* its tests
AfterGenerate(minimum_age) ==
    IF AgeRejected(minimum_age) THEN objects
    ELSE [objects EXCEPT
            !.ofac_enabled = OfacAfterTest(@),
            !.excluded_countries =
                IF @ # <<>> /\ PackCountries(@).ok THEN CountriesAfterFormat(@) ELSE @]

\* the frame as the rest of generate_config_id sees it: excluded_countries is
\* the caller's list, ofac_enabled is the caller's list unless it was rebound
Reread(f) ==
    [f EXCEPT !.excluded_countries = objects.excluded_countries,
              !.ofac_enabled = IF Len(f.ofac_supplied) # 3 THEN @
                               ELSE objects.ofac_enabled]

ConcLists == {<<>>, <<USA, GBR>>}
ConcOfac == {<<TRUE, FALSE, TRUE>>, <<TRUE, TRUE>>}
ConcIds == {IdLower, IdShort}
ConcAges == {1, 18, 151}

\* a task that has not called yet
IdleContext == [pc |-> "idle", frame |-> [op |-> "none"], result |-> NoResult,
                rpc |-> <<>>]

ConcInit ==
    /\ codec = [stage |-> "none"]
    /\ ToolInit
    /\ ledger = Unobserved
    /\ registry = CELO_NETWORKS
    /\ objects \in {Objects(excluded_countries, ofac_enabled) :
                       excluded_countries \in ConcLists, ofac_enabled \in ConcOfac}
    /\ parked = <<IdleContext>>

Awaiting == {"config_exists", "read_exists", "read_config"}

\* invocations begun: the completed ones and the ones waiting for a remote call
Begun ==
    Len(returned) + (IF pc \in Awaiting THEN 1 ELSE 0)
    + Cardinality({k \in 1..Len(parked) : parked[k].pc \in Awaiting})

\* the other task runs: at a remote call, or between invocations
Switch ==
    /\ pc \in Awaiting \cup {"idle", "returned"}
    /\ parked' = <<[pc |-> pc, frame |-> frame, result |-> result, rpc |-> rpc]>>
    /\ pc' = parked[1].pc
    /\ frame' = parked[1].frame
    /\ result' = parked[1].result
    /\ rpc' = parked[1].rpc
    /\ UNCHANGED <<codec, returned, docs_vars, ledger, registry, objects>>

ConcConfigIdTool ==
    /\ Begun < MaxCalls
    /\ \E minimum_age \in ConcAges :
          /\ GenerateConfigIdCall(minimum_age, objects.excluded_countries,
                                  objects.ofac_enabled, "mainnet")
          /\ objects' = AfterGenerate(minimum_age)
    /\ returned' = IF pc' = "returned" THEN Append(returned, Completed) ELSE returned
    /\ UNCHANGED <<codec, docs_vars, ledger, registry, parked>>

ConcConfigIdExists ==
    /\ \E outcome \in ExistsOutcomes : ExistsReplyWith(Reread(frame), outcome)
    /\ returned' = Append(returned, Completed)
    /\ UNCHANGED <<codec, docs_vars, world_vars>>

ConcReadTool ==
    /\ Begun < MaxCalls
    /\ \E config_id \in ConcIds : ReadHubConfigCall(config_id, "testnet")
    /\ returned' = IF pc' = "returned" THEN Append(returned, Completed) ELSE returned
    /\ UNCHANGED <<codec, docs_vars, world_vars>>

ConcReadExists ==
    /\ \E outcome \in ExistsOutcomes : ReadExistsReply(outcome)
    /\ returned' = IF pc' = "returned" THEN Append(returned, Completed) ELSE returned
    /\ UNCHANGED <<codec, docs_vars, world_vars>>

ConcReadFetch ==
    /\ \E outcome \in {[raised |-> TRUE], [raised |-> FALSE, config |-> Foreign.config]} :
          ReadConfigReply(outcome)
    /\ returned' = Append(returned, Completed)
    /\ UNCHANGED <<codec, docs_vars, world_vars>>

ConcNext ==
    \/ Switch
    \/ ConcConfigIdTool
    \/ ConcConfigIdExists
    \/ ConcReadTool
    \/ ConcReadExists
    \/ ConcReadFetch

SpecConc == ConcInit /\ [][ConcNext]_vars

\* =================================================================== claims

\* C1: for every list of 0 to 40 three-letter uppercase ASCII codes, unpacking
\* the four words the list was packed into returns the list, in order.
C1_RoundTrip ==
    (codec.stage = "unpacked" /\ IsValidList(codec.countries))
        => codec.unpacked = codec.countries

\* a 40-entry list of two alternating codes has been packed and unpacked
C1_Witness ==
    /\ codec.stage = "unpacked"
    /\ IsValidList(codec.countries)
    /\ Len(codec.countries) = 40
    /\ codec.countries[1] # codec.countries[2]

\* the byte at an offset of the NUL-padded 120-byte stream of a list: character
\* off mod 3 of the code at index off div 3, NUL past the end of the list
StreamByte(countries, off) ==
    IF off \div 3 < Len(countries) THEN countries[(off \div 3) + 1][(off % 3) + 1] ELSE 0

\* C3: for every valid list, the byte at offset 30i+j of the padded stream is
\* the byte at bit offset 8j of word i (j in 0..29), so word i holds the codes
\* 10i..10i+9; bits 240..255 of every word are zero and so are the bytes of
\* unused slots.
C3_WordLayout ==
    (codec.stage \in {"packed", "unpacked"} /\ IsValidList(codec.countries))
        => /\ codec.packed.ok
           /\ Len(codec.packed.value) = 4
           /\ \A i \in 0..3 :
                 /\ \A j \in 0..29 :
                       codec.packed.value[i + 1][j] = StreamByte(codec.countries, 30 * i + j)
                 /\ codec.packed.value[i + 1][30] = 0
                 /\ codec.packed.value[i + 1][31] = 0

\* an 11-entry list, which spills into the second word, has been packed
C3_Witness ==
    /\ codec.stage = "packed"
    /\ IsValidList(codec.countries)
    /\ Len(codec.countries) = 11
    /\ codec.countries[1] # codec.countries[2]
    /\ codec.packed.value[2][0] # 0

\* ------------------------------------------------ what the claims speak of
IsConfigCall == frame.op = "generate_config_id"
IsScopeCall == frame.op = "generate_scope_hash"
HasConfigId(r) == "config_id" \in DOMAIN r
HasError(r) == "error" \in DOMAIN r
ErrorIs(r, msg) == HasError(r) /\ r.error.msg = msg
FlagByte(b) == IF b THEN 1 ELSE 0
AllThreeChars(countries) == \A k \in 1..Len(countries) : Len(countries[k]) = 3

\* a valid policy (spec section 3)
ValidPolicy(f) ==
    /\ f.minimum_age \in 0..150
    /\ IsValidList(f.excluded_countries)
    /\ Len(f.ofac_supplied) = 3

\* C2: for every valid policy the hashed bytes are 165 bytes: the age flag, the
\* age as 32 big-endian bytes, the countries flag, the four words in index order
\* as 32 big-endian bytes each (the byte at bit offset 8j of word i at position
\* 31-j of field i), then the three sanctions flags as supplied.
C2_WireFormat ==
    (IsConfigCall /\ "packed_data" \in DOMAIN frame /\ ValidPolicy(frame))
        => LET pd == frame.packed_data
               words == frame.config.forbiddenCountriesListPacked
           IN /\ Len(pd) = 165
              /\ pd[1] = FlagByte(frame.minimum_age > 0)
              /\ \A p \in 2..32 : pd[p] = 0
              /\ pd[33] = frame.minimum_age
              /\ pd[34] = FlagByte(frame.excluded_countries # <<>>)
              /\ \A i \in 0..3 : \A j \in 0..31 :
                    /\ pd[34 + 32 * i + (31 - j) + 1] = words[i + 1][j]
                    /\ pd[34 + 32 * i + (31 - j) + 1] =
                          IF j <= 29 THEN StreamByte(frame.excluded_countries, 30 * i + j)
                          ELSE 0
              /\ \A k \in 1..3 : pd[162 + k] = FlagByte(frame.ofac_supplied[k])
              /\ frame.config_id = KeccakHex(pd)
              /\ HasConfigId(result) => result.config_id = KeccakHex(pd)

\* a policy with an age, 11 countries and two sanctions flags has been hashed
\* and its id returned
C2_Witness ==
    /\ IsConfigCall
    /\ pc = "returned"
    /\ HasConfigId(result)
    /\ frame.minimum_age = 18
    /\ Len(frame.excluded_countries) = 11
    /\ IsValidList(frame.excluded_countries)
    /\ frame.ofac_supplied = <<FALSE, TRUE, TRUE>>

\* C6: generate_config_id answers with the age validation error exactly when
\* minimum_age is below 0 or above 150; an age of 0..150 with a packable list
\* succeeds, and an age of 0 is encoded and reported as disabled.
C6_AgeBounds ==
    (IsConfigCall /\ pc = "returned")
        => /\ ErrorIs(result, "Minimum age must be between 0 and 150")
                <=> (frame.minimum_age < 0 \/ frame.minimum_age > 150)
           /\ (frame.minimum_age < 0 \/ frame.minimum_age > 150)
                => (~HasConfigId(result) /\ rpc = <<>>)
           /\ (/\ frame.minimum_age \in 0..150
               /\ Len(frame.excluded_countries) <= 40
               /\ AllThreeChars(frame.excluded_countries))
                => /\ HasConfigId(result)
                   /\ ~HasError(result)
                   /\ frame.minimum_age = 0
                        => /\ frame.config.olderThanEnabled = FALSE
                           /\ frame.packed_data[1] = 0
                           /\ result.configuration.minimum_age = <<"str", "Disabled">>
                   /\ frame.minimum_age > 0
                        => /\ frame.config.olderThanEnabled = TRUE
                           /\ result.configuration.minimum_age = <<"int", frame.minimum_age>>

\* an age of 150 has been accepted and an id returned
C6_Witness ==
    /\ IsConfigCall
    /\ pc = "returned"
    /\ frame.minimum_age = 150
    /\ HasConfigId(result)

\* C7 as stated: with an accepted age, the too-many-countries error is returned
\* exactly when the list has more than 40 entries, and the invalid-code error
\* whenever some entry is not 3 characters long, whatever the length of the list;
\* either way the result carries no config id.
C7_AnyBadEntry ==
    (IsConfigCall /\ pc = "returned" /\ frame.minimum_age \in 0..150)
        => /\ ErrorIs(result, "Maximum countries allowed")
                <=> Len(frame.excluded_countries) > 40
           /\ ~AllThreeChars(frame.excluded_countries)
                => ErrorIs(result, "Invalid country code. Must be 3 characters.")
           /\ (Len(frame.excluded_countries) > 40 \/ ~AllThreeChars(frame.excluded_countries))
                => (HasError(result) /\ ~HasConfigId(result))

\* C7, amended: with an accepted age, the too-many-countries error is returned
\* exactly when the list has more than 40 entries (the length is tested first);
\* a list of at most 40 entries with an entry that is not 3 characters long gets
\* the invalid-code error; either way the result carries no config id and no
\* remote call is made; a list of 40 three-character entries succeeds.
C7_CountryErrors ==
    (IsConfigCall /\ pc = "returned" /\ frame.minimum_age \in 0..150)
        => /\ ErrorIs(result, "Maximum countries allowed")
                <=> Len(frame.excluded_countries) > 40
           /\ (Len(frame.excluded_countries) <= 40 /\ ~AllThreeChars(frame.excluded_countries))
                => ErrorIs(result, "Invalid country code. Must be 3 characters.")
           /\ (Len(frame.excluded_countries) > 40 \/ ~AllThreeChars(frame.excluded_countries))
                => (HasError(result) /\ ~HasConfigId(result) /\ rpc = <<>>)
           /\ (Len(frame.excluded_countries) <= 40 /\ AllThreeChars(frame.excluded_countries))
                => (HasConfigId(result) /\ ~HasError(result))

\* a 41-entry list of three-character codes has been refused
C7_Witness ==
    /\ IsConfigCall
    /\ pc = "returned"
    /\ frame.minimum_age \in 0..150
    /\ Len(frame.excluded_countries) = 41
    /\ AllThreeChars(frame.excluded_countries)
    /\ ErrorIs(result, "Maximum countries allowed")

\* C8: a sanctions_tiers list that does not have exactly 3 flags is refused with
\* a validation error and never hashed, so every returned config id was computed
\* from the three flags the caller supplied.
C8_OfacValidated ==
    (IsConfigCall /\ pc = "returned")
        => /\ Len(frame.ofac_supplied) # 3 => (HasError(result) /\ ~HasConfigId(result))
           /\ HasConfigId(result) => frame.config.ofacEnabled = frame.ofac_supplied

\* the messages of the seed checks and of the endpoint checks
SeedMessages ==
    {"Scope seed cannot be empty", "Scope seed must be 20 characters or less",
     "Scope seed must contain only lowercase ASCII characters"}
EndpointMessages ==
    {"Invalid Ethereum address format", "Invalid HTTPS URL",
     "Input must be an Ethereum address (0x...) or HTTPS URL"}
SeedRefused(r) == HasError(r) /\ \E k \in 1..Len(r.error) : r.error[k] \in SeedMessages
EndpointRefused(r) == HasError(r) /\ \E k \in 1..Len(r.error) : r.error[k] \in EndpointMessages

IsAsciiLower(c) == c \in 97..122
IsAsciiDigit(c) == c \in 48..57
\* 1 to 20 characters, each a lowercase ASCII letter, an ASCII digit or one of
\* space - _ . , ! ?
SeedWellFormed(seed) ==
    /\ Len(seed) \in 1..20
    /\ \A k \in 1..Len(seed) :
          IsAsciiLower(seed[k]) \/ IsAsciiDigit(seed[k]) \/ seed[k] \in {32, 45, 95, 46, 44, 33, 63}

\* C9: generate_scope_hash accepts a seed if and only if it has 1 to 20
\* characters, each a lowercase ASCII letter, an ASCII digit or one of the seven
\* symbols; every other seed gets an invalid-seed error.
C9_SeedRule ==
    (IsScopeCall /\ pc = "returned")
        => /\ ~SeedRefused(result) <=> SeedWellFormed(frame.scope_seed)
           /\ SeedRefused(result) => result.scope_hash = <<>>

\* "0x" followed by exactly 40 hexadecimal digits
IsHex40(e) ==
    /\ Len(e) = 42
    /\ SubSeq(e, 1, 2) = <<48, 120>>
    /\ \A k \in 3..42 : e[k] \in (48..57) \cup (97..102) \cup (65..70)
\* "https://" followed by at least one character
IsHttpsUrl(e) == Len(e) > 8 /\ SubSeq(e, 1, 8) = <<104, 116, 116, 112, 115, 58, 47, 47>>
\* the hex letters are all lower case, or all upper case, or the address is
\* written in its EIP-55 checksum capitals (HubChecksum is the one such address
\* among the inputs)
CaseAccepted(e) ==
    \/ \A k \in 3..Len(e) : e[k] \notin 65..70
    \/ \A k \in 3..Len(e) : e[k] \notin 97..102
    \/ e = HubChecksum

\* C10 as stated: an endpoint is accepted if and only if it is a 0x-prefixed hex
\* address of canonical length (kind 'address') or an https:// URL longer than
\* the prefix (kind 'url'); every other endpoint gets an invalid-endpoint error
\* and no scope hash.
C10_AnyCaseAddress ==
    (IsScopeCall /\ pc = "returned")
        => /\ ~EndpointRefused(result)
                <=> (IsHex40(frame.address_or_url) \/ IsHttpsUrl(frame.address_or_url))
           /\ EndpointRefused(result) => result.scope_hash = <<>>

\* C10, amended: an endpoint is accepted if and only if it is a 0x-prefixed
\* 40-digit hex address whose letters are all lower case, all upper case or in
\* EIP-55 checksum capitals (kind 'address'), or an https:// URL longer than the
\* prefix (kind 'url'); every other endpoint gets an invalid-endpoint error and
\* no scope hash.
C10_EndpointRule ==
    (IsScopeCall /\ pc = "returned")
        => LET e == frame.address_or_url
               address == IsHex40(e) /\ CaseAccepted(e)
           IN /\ ~EndpointRefused(result) <=> (address \/ IsHttpsUrl(e))
              /\ address => result.input_type = "address"
              /\ IsHttpsUrl(e) => result.input_type = "url"
              /\ EndpointRefused(result)
                    => (result.scope_hash = <<>> /\ result.input_type = "")

\* the hub address in its checksum capitals has been accepted as an address
C10_Witness ==
    /\ IsScopeCall
    /\ pc = "returned"
    /\ result.validation = "valid"
    /\ frame.address_or_url = HubChecksum
    /\ result.input_type = "address"

\* the policy of a completed generate_config_id invocation
IsConfigEntry(c) == c.frame.op = "generate_config_id" /\ HasConfigId(c.result)
SamePolicy(c, d) ==
    /\ c.frame.minimum_age = d.frame.minimum_age
    /\ c.frame.excluded_countries = d.frame.excluded_countries
    /\ c.frame.ofac_supplied = d.frame.ofac_supplied
IsScopeEntry(c) == c.frame.op = "generate_scope_hash"

\* C4: two generate_config_id invocations with the same policy return the same
\* config id, whatever the network and whatever the existence check answered;
\* two generate_scope_hash invocations with the same endpoint and seed return
\* the same scope hash.
C4_Deterministic ==
    \A a \in 1..Len(returned) : \A b \in 1..Len(returned) :
        LET c == returned[a]
            d == returned[b]
        IN /\ (IsConfigEntry(c) /\ IsConfigEntry(d) /\ SamePolicy(c, d))
                => c.result.config_id = d.result.config_id
           /\ (/\ IsScopeEntry(c)
               /\ IsScopeEntry(d)
               /\ c.frame.address_or_url = d.frame.address_or_url
               /\ c.frame.scope_seed = d.frame.scope_seed)
                => c.result.scope_hash = d.result.scope_hash

\* the same policy has been hashed on mainnet with the check answering true and
\* on testnet with the check failing
C4_Witness ==
    /\ Len(returned) >= 2
    /\ IsConfigEntry(returned[1])
    /\ IsConfigEntry(returned[2])
    /\ SamePolicy(returned[1], returned[2])
    /\ returned[1].frame.excluded_countries # <<>>
    /\ returned[1].frame.network = "mainnet"
    /\ returned[2].frame.network = "testnet"
    /\ returned[1].rpc[1].reply = "true"
    /\ returned[2].rpc[1].reply = "error"

\* the two lists hold the same codes, each as often
SameCodes(l1, l2) ==
    /\ Len(l1) = Len(l2)
    /\ \A k \in 1..Len(l1) :
          Cardinality({m \in 1..Len(l1) : l1[m] = l1[k]})
            = Cardinality({m \in 1..Len(l2) : l2[m] = l1[k]})

\* C5: two valid policies with the same age and sanctions flags whose country
\* lists hold the same codes in a different order have different canonical
\* encodings and different config ids.
C5_OrderSensitive ==
    \A a \in 1..Len(returned) : \A b \in 1..Len(returned) :
        LET c == returned[a]
            d == returned[b]
        IN (/\ IsConfigEntry(c)
            /\ IsConfigEntry(d)
            /\ ValidPolicy(c.frame)
            /\ ValidPolicy(d.frame)
            /\ c.frame.minimum_age = d.frame.minimum_age
            /\ c.frame.ofac_supplied = d.frame.ofac_supplied
            /\ c.frame.excluded_countries # d.frame.excluded_countries
            /\ SameCodes(c.frame.excluded_countries, d.frame.excluded_countries))
            => /\ c.frame.packed_data # d.frame.packed_data
               /\ c.result.config_id # d.result.config_id

\* the list USA, GBR and then the list GBR, USA have been hashed with one age
C5_Witness ==
    /\ Len(returned) >= 2
    /\ IsConfigEntry(returned[1])
    /\ IsConfigEntry(returned[2])
    /\ returned[1].frame.excluded_countries = <<USA, GBR>>
    /\ returned[2].frame.excluded_countries = <<GBR, USA>>
    /\ returned[1].frame.minimum_age = returned[2].frame.minimum_age


\* the text a hex digest was computed from
Preimage(hex) == hex[1].keccak

\* C11: a successful generate_scope_hash returns the digest of a text that is as
\* long as the endpoint and the seed together, starts with the endpoint with
\* every upper-case letter replaced by its lower-case letter and every other
\* character kept, and continues with the seed, character for character.
C11_ScopePreimage ==
    (IsScopeCall /\ pc = "returned" /\ result.validation = "valid")
        => LET e == frame.address_or_url
               s == frame.scope_seed
               p == Preimage(result.scope_hash)
           IN /\ Len(result.scope_hash) = 1
              /\ Len(p) = Len(e) + Len(s)
              /\ \A k \in 1..Len(e) :
                    p[k] = IF e[k] \in 65..90 THEN e[k] + 32 ELSE e[k]
              /\ \A k \in 1..Len(s) : p[Len(e) + k] = s[k]

\* the hub address in its checksum capitals has been hashed with a seed that
\* holds a symbol
C11_Witness ==
    /\ IsScopeCall
    /\ pc = "returned"
    /\ result.validation = "valid"
    /\ frame.address_or_url = HubChecksum
    /\ Len(frame.scope_seed) >= 2
    /\ \E k \in 1..Len(frame.scope_seed) : frame.scope_seed[k] \in SeedSymbols


\* C12: a generate_scope_hash or generate_config_id invocation that returned an
\* error has issued no remote call; generate_scope_hash never issues one; and
\* whenever generate_config_id has issued one, the age was within 0..150 and the
\* list had at most 40 entries, each of 3 characters.
C12_NoCallBeforeValidation ==
    /\ (pc = "returned" /\ (IsScopeCall \/ IsConfigCall) /\ HasError(result)) => rpc = <<>>
    /\ IsScopeCall => rpc = <<>>
    /\ (IsConfigCall /\ rpc # <<>>)
            => /\ frame.minimum_age \in 0..150
               /\ Len(frame.excluded_countries) <= 40
               /\ AllThreeChars(frame.excluded_countries)

\* generate_config_id has refused a short list with a two-character code,
\* without a remote call
C12_Witness ==
    /\ IsConfigCall
    /\ pc = "returned"
    /\ Len(frame.excluded_countries) \in 1..40
    /\ ErrorIs(result, "Invalid country code. Must be 3 characters.")
    /\ rpc = <<>>


IsReadCall == frame.op = "read_hub_config"
\* "0x" followed by exactly 64 hexadecimal characters
IsWellFormedId(id) ==
    /\ Len(id) = 66
    /\ id[1] = 48
    /\ id[2] = 120
    /\ \A k \in 3..66 : id[k] \in (48..57) \cup (97..102) \cup (65..70)

\* C13: read_hub_config issues a remote call only for an id that is 0x followed
\* by exactly 64 hexadecimal characters, and for every other id it returns the
\* malformed-id error, with no remote call issued.
C13_MalformedIdRule ==
    /\ (IsReadCall /\ rpc # <<>>) => IsWellFormedId(frame.config_id)
    /\ (IsReadCall /\ pc = "returned" /\ ~IsWellFormedId(frame.config_id))
            => /\ ErrorIs(result, "Invalid config ID format. Must be 0x followed by 64 hex characters.")
               /\ rpc = <<>>


\* C14: a read_hub_config invocation whose existence check answered false has
\* returned the not-found result, exists = false for the id and network asked
\* for, and its call log holds that one call and no struct fetch.
C14_NotFoundOneCall ==
    (IsReadCall /\ rpc # <<>> /\ rpc[1].reply = "false")
        => /\ pc = "returned"
           /\ Len(rpc) = 1
           /\ rpc[1].fn = "verificationConfigV2Exists"
           /\ "exists" \in DOMAIN result
           /\ result.exists = FALSE
           /\ result.config_id = frame.config_id
           /\ result.network = frame.network

\* the existence check of a well-formed id on testnet has answered false
C14_Witness ==
    /\ IsReadCall
    /\ pc = "returned"
    /\ frame.network = "testnet"
    /\ Len(rpc) = 1
    /\ rpc[1].reply = "false"
    /\ result.exists = FALSE


\* C15: in a read_hub_config invocation the struct fetch is in the call log only
\* behind the existence check of the same id on the same hub, and only once
\* that check has answered true; no two calls are unanswered at the same time;
\* after an existence check that failed the log holds no struct fetch.
C15_ExistsBeforeFetch ==
    IsReadCall
        => /\ \A k \in 1..Len(rpc) :
                rpc[k].fn = "getVerificationConfigV2"
                    => /\ k = 2
                       /\ rpc[1].fn = "verificationConfigV2Exists"
                       /\ rpc[1].reply = "true"
                       /\ rpc[1].arg = rpc[2].arg
                       /\ rpc[1].to = rpc[2].to
           /\ Cardinality({k \in 1..Len(rpc) : rpc[k].reply = "pending"}) <= 1
           /\ (rpc # <<>> /\ rpc[1].reply = "error") => Len(rpc) = 1

\* the struct fetch is in flight behind an existence check that answered true
C15_Witness ==
    /\ IsReadCall
    /\ pc = "read_config"
    /\ Len(rpc) = 2
    /\ rpc[1].reply = "true"
    /\ rpc[2].fn = "getVerificationConfigV2"
    /\ rpc[2].reply = "pending"


ReportsAbsent(r) == "exists" \in DOMAIN r /\ r.exists = FALSE
SomeCallFailed == \E k \in 1..Len(rpc) : rpc[k].reply = "error"

\* C16: a read_hub_config invocation one of whose remote calls failed has
\* returned an error result that does not say exists = false, and a result
\* that says exists = false is returned only when the existence check answered
\* false.
C16_FailureIsNotAbsence ==
    (IsReadCall /\ pc = "returned")
        => /\ SomeCallFailed => (HasError(result) /\ ~ReportsAbsent(result))
           /\ ReportsAbsent(result) => (rpc # <<>> /\ rpc[1].reply = "false")

\* the struct fetch has failed behind an existence check that answered true
C16_Witness ==
    /\ IsReadCall
    /\ pc = "returned"
    /\ Len(rpc) = 2
    /\ rpc[2].reply = "error"
    /\ ErrorIs(result, "Error reading config")
    /\ ~ReportsAbsent(result)


\* C17: a generate_config_id invocation whose existence check failed has
\* returned an error value, and not a result that says exists_on_chain = false
\* with a deploy URL and the 'does not exist yet' message.
C17_FailedCheckIsUnknown ==
    (IsConfigCall /\ pc = "returned" /\ rpc # <<>> /\ rpc[1].reply = "error")
        => /\ HasError(result)
           /\ ~(/\ "exists_on_chain" \in DOMAIN result
                /\ result.exists_on_chain = FALSE
                /\ result.deploy_url # <<>>
                /\ result.message = "Config does not exist yet, use deploy_url to create it")


\* C18: no invocation of generate_scope_hash, generate_config_id,
\* read_hub_config or list_country_codes ends with an exception leaving the
\* function, whatever the arguments (None included where the parameter is
\* Optional) and whatever the remote ledger does.
C18_NothingEscapes ==
    pc # "raised"


InFlight == pc \in {"config_exists", "read_exists", "read_config"}
\* no remote query is in the call log twice, and a failed call is the last one
NoRetry ==
    /\ \A j \in 1..Len(rpc) : \A k \in 1..Len(rpc) : j # k => rpc[j].fn # rpc[k].fn
    /\ \A k \in 1..Len(rpc) : rpc[k].reply = "error" => k = Len(rpc)
\* an invocation one of whose remote calls failed has returned an error value
FailureReported ==
    SomeCallFailed => (pc = "returned" /\ HasError(result))

\* C19: in a generate_config_id or read_hub_config invocation no remote query is
\* issued twice and none is issued after one has failed; a failed call ends the
\* invocation with an error value; and, every issued call being answered
\* eventually, an invocation that awaits a call eventually returns.
C19_FailureEndsInError ==
    /\ []((IsConfigCall \/ IsReadCall) => (NoRetry /\ FailureReported))
    /\ (InFlight ~> pc = "returned")

\* the part of C19 that does not depend on how a failure is reported: no query
\* twice, none after a failure, and an invocation that awaits a call returns
NoRetryAndReturns == []NoRetry /\ (InFlight ~> pc = "returned")


\* the query arguments of a deploy URL with a given key
WithKey(params, key) == {k \in 1..Len(params) : params[k].key = key}
\* the text is the three-character codes in order, a comma between neighbours
IsCodesText(text, codes) ==
    /\ Len(text) = 4 * Len(codes) - 1
    /\ \A i \in 1..Len(codes) : \A j \in 1..3 : text[4 * (i - 1) + j] = codes[i][j]
    /\ \A i \in 1..(Len(codes) - 1) : text[4 * i] = 44

\* C20: a result with a config id has no deploy URL exactly when it says
\* exists_on_chain = true; the URL starts with the tools address and has an age
\* argument, equal to the hashed age, iff the hashed age flag is set; a countries
\* argument, the supplied codes in order, iff the hashed countries flag is set;
\* and an ofac argument, the three hashed flags in order, iff one of them is set;
\* no argument appears twice.
C20_DeployUrl ==
    (IsConfigCall /\ pc = "returned" /\ HasConfigId(result))
        => /\ result.deploy_url = <<>> <=> result.exists_on_chain
           /\ ~result.exists_on_chain
                => LET params == result.deploy_url[2]
                       age == WithKey(params, "age")
                       countries == WithKey(params, "countries")
                       ofac == WithKey(params, "ofac")
                       hashed == frame.config
                   IN /\ result.deploy_url[1] = "https://tools.self.xyz/?"
                      /\ Len(params) = Cardinality(age \cup countries \cup ofac)
                      /\ Cardinality(age) = (IF hashed.olderThanEnabled THEN 1 ELSE 0)
                      /\ \A k \in age : params[k].int = hashed.olderThan
                      /\ Cardinality(countries)
                            = (IF hashed.forbiddenCountriesEnabled THEN 1 ELSE 0)
                      /\ \A k \in countries :
                            IsCodesText(params[k].text, frame.excluded_countries)
                      /\ Cardinality(ofac)
                            = (IF \E m \in 1..3 : hashed.ofacEnabled[m] THEN 1 ELSE 0)
                      /\ \A k \in ofac :
                            /\ Len(params[k].flags) = 3
                            /\ \A m \in 1..3 :
                                  params[k].flags[m] = "true" <=> hashed.ofacEnabled[m]

\* an id the ledger does not hold has been returned with a deploy URL for a
\* policy with an age, two or more countries and a sanctions flag
C20_Witness ==
    /\ IsConfigCall
    /\ pc = "returned"
    /\ HasConfigId(result)
    /\ rpc[1].reply = "false"
    /\ result.deploy_url # <<>>
    /\ frame.minimum_age > 0
    /\ Len(frame.excluded_countries) >= 2
    /\ \E m \in 1..3 : frame.config.ofacEnabled[m]


\* the characters of a slot before its first zero byte
BeforeZero(t) ==
    LET n == CHOOSE n \in 0..Len(t) :
                 /\ \A j \in 1..n : t[j] # 0
                 /\ n = Len(t) \/ t[n + 1] = 0
    IN SubSeq(t, 1, n)

\* the three bytes at byte offset 3 * i of a word
SlotOf(word, i) == <<word[3 * i], word[3 * i + 1], word[3 * i + 2]>>

\* the 40 slots of four words, in word-then-slot order, each cut at its
\* first zero byte
SlotTexts(words) ==
    [k \in 1..40 |-> BeforeZero(SlotOf(words[((k - 1) \div 10) + 1], (k - 1) % 10))]

\* a word with bits 240 to 255 cleared
LowBits(word) == [k \in 0..31 |-> IF k >= 30 THEN 0 ELSE word[k]]

\* C23: for any four 256-bit words, unpack_countries_from_config returns, in
\* word-then-slot order over the 10 slots at byte offsets 0, 3, ..., 27 of each
\* word, the characters of each slot before its first zero byte, omitting the
\* slots whose first byte is zero; the result has at most 40 entries of 1 to 3
\* characters, and bits 240 to 255 of a word do not influence it.
C23_UnpackAnyWords ==
    codec.stage = "decoded" =>
        LET words == codec.packed.value
        IN /\ codec.unpacked = SelectSeq(SlotTexts(words), LAMBDA t : t # <<>>)
           /\ Len(codec.unpacked) <= 40
           /\ \A k \in 1..Len(codec.unpacked) : Len(codec.unpacked[k]) \in 1..3
           /\ codec.unpacked
                = unpack_countries_from_config([w \in 1..4 |-> LowBits(words[w])])

\* words with bits 240 to 255 set, a slot cut short at a zero byte and a slot
\* that starts with a zero byte and holds characters after it
C23_Witness ==
    /\ codec.stage = "decoded"
    /\ codec.packed.value[1][30] = 255
    /\ SlotOf(codec.packed.value[1], 0) = <<65, 0, 65>>
    /\ SlotOf(codec.packed.value[1], 1) = <<0, 65, 255>>
    /\ codec.unpacked[1] = <<65>>


\* a read_hub_config invocation that returned the report of a fetched struct
ReportReturned ==
    /\ pc = "returned"
    /\ frame.op = "read_hub_config"
    /\ rpc # <<>>
    /\ rpc[Len(rpc)].reply = "struct"

\* name is what the static table gives for code, or code itself when the
\* table has no such code
NamePairs(code, name) ==
    IF \E e \in COUNTRY_CODES : e.code = code
    THEN \E e \in COUNTRY_CODES : e.code = code /\ e.name = name
    ELSE name = code

\* C24: in a successful read_config report the readable list has the length
\* and order of the decoded code list, each entry pairing a code with its name
\* from the static table or with the code itself when unknown, and count is
\* that length; the age value is reported, with display '<n> years', only when
\* the fetched age-enabled flag is true, otherwise the value is absent and the
\* display is 'Disabled'.
C24_ReportShape ==
    ReportReturned =>
        LET fetched == frame.config
            decoded == IF fetched.forbiddenCountriesEnabled
                       THEN SelectSeq(SlotTexts(fetched.forbiddenCountriesListPacked),
                                      LAMBDA t : t # <<>>)
                       ELSE <<>>
            age == result.configuration.minimum_age
            list == result.configuration.excluded_countries
        IN /\ list.codes = decoded
           /\ Len(list.readable) = Len(list.codes)
           /\ \A k \in 1..Len(list.codes) :
                 /\ list.readable[k].code = list.codes[k]
                 /\ NamePairs(list.codes[k], list.readable[k].name)
           /\ list.count = Len(list.codes)
           /\ IF fetched.olderThanEnabled
              THEN /\ age.value = <<"int", fetched.olderThan>>
                   /\ age.display = <<fetched.olderThan, " years">>
              ELSE /\ age.value = <<"None">>
                   /\ age.display = <<"Disabled">>

\* a report of a struct whose age flag is off over a stored age of 18
C24_Witness ==
    /\ ReportReturned
    /\ ~frame.config.olderThanEnabled
    /\ frame.config.olderThan = 18
    /\ result.configuration.minimum_age.display = <<"Disabled">>

\* a report that names a known code and falls back to the code for unknown ones
C24_WitnessNames ==
    /\ ReportReturned
    /\ \E k \in 1..Len(result.configuration.excluded_countries.readable) :
          LET e == result.configuration.excluded_countries.readable[k]
          IN e.name = e.code
    /\ result.configuration.excluded_countries.count = 6


\* a slot that does not cleanly terminate: no zero byte within its three bytes
Unterminated(word, i) == \A j \in 1..3 : SlotOf(word, i)[j] # 0

\* C22: when read_config fetches a struct whose country list is enabled and one
\* of whose 3-byte slots holds no zero byte, it returns a data-integrity error
\* and not a decoded or truncated country list.
C22_IntegrityError ==
    (/\ pc = "returned"
     /\ frame.op = "read_hub_config"
     /\ "config" \in DOMAIN frame
     /\ frame.config.forbiddenCountriesEnabled
     /\ \E w \in 1..4, i \in 0..9 :
           Unterminated(frame.config.forbiddenCountriesListPacked[w], i))
        => /\ "error" \in DOMAIN result
           /\ "configuration" \notin DOMAIN result


\* the k-th completed invocation is an accepted generate_scope_hash
AcceptedScope(k) ==
    /\ returned[k].frame.op = "generate_scope_hash"
    /\ returned[k].result.validation = "valid"

\* the endpoint in lowercase followed by the seed
Concatenation(k) ==
    LET endpoint == returned[k].frame.address_or_url
    IN [m \in 1..Len(endpoint) |->
           IF endpoint[m] \in 65..90 THEN endpoint[m] + 32 ELSE endpoint[m]]
       \o returned[k].frame.scope_seed

\* C28: any two accepted generate_scope_hash inputs whose lowercase(endpoint)
\* followed by seed is the same string receive the same scope hash, whatever
\* the letter case of the endpoint and wherever the endpoint/seed boundary
\* falls, and accepted inputs whose concatenations differ receive hashes of
\* different preimages.
C28_HashOfConcatenation ==
    \A i \in 1..Len(returned), j \in 1..Len(returned) :
        (AcceptedScope(i) /\ AcceptedScope(j)) =>
            /\ Concatenation(i) = Concatenation(j)
                  => returned[i].result.scope_hash = returned[j].result.scope_hash
            /\ Concatenation(i) # Concatenation(j)
                  => Preimage(returned[i].result.scope_hash)
                        # Preimage(returned[j].result.scope_hash)

\* two accepted inputs with one hash: endpoints that differ in letter case only
C28_Witness ==
    \E i \in 1..Len(returned), j \in 1..Len(returned) :
        /\ AcceptedScope(i) /\ AcceptedScope(j)
        /\ returned[i].frame.address_or_url = HubChecksum
        /\ returned[j].frame.address_or_url = HubLower
        /\ returned[i].result.scope_hash = returned[j].result.scope_hash

\* two accepted inputs with one hash: the boundary between endpoint and seed moved
C28_WitnessBoundary ==
    \E i \in 1..Len(returned), j \in 1..Len(returned) :
        /\ AcceptedScope(i) /\ AcceptedScope(j)
        /\ returned[i].frame.scope_seed # returned[j].frame.scope_seed
        /\ returned[i].result.scope_hash = returned[j].result.scope_hash


\* the byte of the canonical sequence pd that holds byte k (0..119) of the
\* country stream: word k \div 30, 32 big-endian bytes from position 35
StreamByteOf(pd, k) == pd[34 + 32 * (k \div 30) + (31 - (k % 30)) + 1]

\* the policy read back from a canonical byte sequence: the age from the
\* big-endian field, the codes from the slots that do not start with a zero
\* byte, the sanctions flags from the last three bytes
PolicyOf(pd) ==
    [minimum_age |-> pd[33] + 256 * pd[32],
     excluded_countries |->
         SelectSeq([s \in 1..40 |-> <<StreamByteOf(pd, 3 * (s - 1)),
                                      StreamByteOf(pd, 3 * (s - 1) + 1),
                                      StreamByteOf(pd, 3 * (s - 1) + 2)>>],
                   LAMBDA t : t[1] # 0),
     ofac_enabled |-> <<pd[163] = 1, pd[164] = 1, pd[165] = 1>>]

\* C27: the canonical encoding is injective on valid policies: the age, the
\* country sequence and the three sanctions flags of a valid policy can be read
\* back from its canonical byte sequence, so two valid policies that differ in
\* any of them have different byte sequences.
C27_EncodingInjective ==
    (IsConfigCall /\ "packed_data" \in DOMAIN frame /\ ValidPolicy(frame))
        => PolicyOf(frame.packed_data)
              = [minimum_age |-> frame.minimum_age,
                 excluded_countries |-> frame.excluded_countries,
                 ofac_enabled |-> frame.ofac_supplied]

\* a valid policy with an age, the longest list and one sanctions flag set
C27_Witness ==
    /\ IsConfigCall /\ "packed_data" \in DOMAIN frame /\ ValidPolicy(frame)
    /\ frame.minimum_age = 150
    /\ Len(frame.excluded_countries) = 40
    /\ frame.ofac_supplied = <<FALSE, TRUE, TRUE>>


\* the fetch of call c failed: an error status, or an exception from the
\* transport (a timeout included) or from decoding
FetchFailed(c) == calls[c].response \in {"status_404", "status_error", "exception"}

\* C25: whenever the fetch of a path fails for any reason, fetch_document
\* raises nothing and returns the cached copy of that path if one exists, even
\* an expired one, and None only when no copy is cached.
C25_FailedFetchFallsBack ==
    \A c \in 1..Len(calls) :
        FetchFailed(c) =>
            /\ calls[c].pc = "returned"
            /\ calls[c].value = IF calls[c].seen.present
                                THEN Content(calls[c].seen.content)
                                ELSE NoContent

\* the part of C25 that the code keeps: a fetch that fails with an exception
\* other than an HTTP error status returns the cached copy, or None without one
C25_ExceptionFallsBack ==
    \A c \in 1..Len(calls) :
        calls[c].response = "exception" =>
            /\ calls[c].pc = "returned"
            /\ calls[c].value = IF calls[c].seen.present
                                THEN Content(calls[c].seen.content)
                                ELSE NoContent

\* a call that finishes in this step
Finishes(c) == calls[c].pc = "awaiting" /\ calls'[c].pc # "awaiting"

\* C30: under any interleaving of fetch_document and clear_cache calls on one
\* client, the cache entry of a path is written only by a successful fetch of
\* that path and holds the content that fetch returned (and is removed only by
\* clear_cache), a failed fetch leaves the cache unchanged, and a call that
\* finds an unexpired entry for its path returns that entry's content without
\* issuing an HTTP request.
C30_CacheDiscipline ==
    [][/\ \A p \in Paths :
            cache'[p] # cache[p] =>
                \/ /\ calls' = calls
                   /\ \A q \in Paths : ~cache'[q].present
                \/ \E c \in 1..Len(calls) :
                      /\ Finishes(c)
                      /\ calls[c].path = p
                      /\ calls'[c].response = "base64"
                      /\ cache'[p].present
                      /\ calls'[c].value = Content(cache'[p].content)
       /\ \A c \in 1..Len(calls) :
            (Finishes(c) /\ calls'[c].response # "base64") => cache' = cache
       /\ Len(calls') > Len(calls) =>
            LET call == calls'[Len(calls')]
                entry == cache[call.path]
            IN (entry.present /\ now - entry.fetched_at < cache_ttl)
                  => /\ call.pc = "returned"
                     /\ call.value = Content(entry.content)
                     /\ requests' = requests
                     /\ cache' = cache]_vars

\* two fetches of one path in flight together: the second to start resumed
\* first with "v2", then the first resumed with "v1", which the cache now holds
C30_Witness ==
    /\ Len(calls) = 2
    /\ calls[1].path = calls[2].path
    /\ calls[1].requested /\ calls[2].requested
    /\ calls[1].value = Content("v1")
    /\ calls[2].value = Content("v2")
    /\ cache[calls[1].path] = CachedDocument("v1", now)
    /\ requests = 2

\* a call answered from an unexpired entry, without a request
C30_WitnessHit ==
    \E c \in 1..Len(calls) :
        /\ ~calls[c].requested
        /\ calls[c].value = Content("v2")


\* C21: no operation writes to the ledger or to the network registry: over any
\* sequence of generate_scope_hash, generate_config_id, read_config and
\* list_country_codes calls the stored configurations and the per-network
\* descriptors stay as they were, and both remote calls of one read_config go
\* to the hub address (and the endpoint) of the network it was called with.
C21_ReadOnly ==
    /\ [](registry = CELO_NETWORKS)
    /\ [](frame.op = "read_hub_config"
            => \A k \in 1..Len(rpc) :
                  /\ rpc[k].to = CELO_NETWORKS[frame.network].hub
                  /\ rpc[k].rpc = CELO_NETWORKS[frame.network].rpc)
    /\ [][ledger' = ledger /\ registry' = registry]_vars

\* a read on testnet that made both remote calls over hubs that hold
\* configurations
C21_Witness ==
    /\ ReportReturned
    /\ frame.network = "testnet"
    /\ Len(rpc) = 2
    /\ rpc[1].fn = "verificationConfigV2Exists"
    /\ rpc[2].fn = "getVerificationConfigV2"
    /\ Cardinality(ledger) = 3

\* C26: for every valid policy P, when the ledger stores under P's config id
\* the struct that generate_config_id built for P, read_config of that id
\* reports P's minimum age (disabled when 0), P's country list in P's order and
\* P's three sanctions flags.
C26_ReadBack ==
    /\ (IsConfigCall /\ "config" \in DOMAIN frame)
          => \A e \in Stored(frame.network, HexText(frame.config_id)) :
                e.config = frame.config
    /\ \A p \in PolicyDigests :
          (ReportReturned /\ frame.config_id = p.hex) =>
              LET report == result.configuration
              IN /\ report.minimum_age.enabled = (p.minimum_age # 0)
                 /\ report.minimum_age.value
                       = IF p.minimum_age = 0 THEN <<"None">>
                         ELSE <<"int", p.minimum_age>>
                 /\ report.excluded_countries.codes = p.excluded_countries
                 /\ <<report.ofac_settings.basic, report.ofac_settings.enhanced,
                      report.ofac_settings.comprehensive>> = p.ofac_enabled

\* the read-back of a deployed policy with age 150, 40 codes and two flags set
C26_Witness ==
    /\ ReportReturned
    /\ \E p \in PolicyDigests :
          /\ p.minimum_age = 150
          /\ Len(p.excluded_countries) = 40
          /\ frame.config_id = p.hex
    /\ result.configuration.excluded_countries.count = 40

\* generate_config_id finds on the hub the struct it has just built
C26_WitnessStored ==
    /\ IsConfigCall
    /\ pc = "returned"
    /\ "exists_on_chain" \in DOMAIN result
    /\ result.exists_on_chain


\* what a completed invocation returns when it runs alone on the arguments in
\* its frame and gets the replies in its call log
Alone(inv) ==
    LET f == inv.frame
        reply == inv.rpc[Len(inv.rpc)].reply
    IN IF f.op = "generate_config_id"
       THEN IF AgeRejected(f.minimum_age)
            THEN [error |-> [msg |-> "Minimum age must be between 0 and 150"]]
            ELSE IF ~PackCountries(f.excluded_countries).ok
            THEN [error |-> PackCountries(f.excluded_countries).error]
            ELSE ConfigResult(f, reply = "true")
       ELSE IF ConfigIdRefused(f.config_id) THEN ReadRefusal
       ELSE IF ~IsEncodableBytes32(f.config_id)
       THEN ReadFailure(f.config_id, f.network, "ValidationError")
       ELSE IF reply = "error" THEN ReadFailure(f.config_id, f.network, "Exception")
       ELSE IF reply = "false" THEN ReadNotFound(f.config_id, f.network)
       ELSE ReadReport(f.config_id, f.network, f.config)

\* C29: generate_config_id, read_config and the country codec never modify the
\* caller's excluded_countries or sanctions lists nor any module-level state
\* (the default-argument lists, the country-name table, the network table), so
\* under any interleaving of concurrent invocations each invocation returns
\* what it returns when run alone with the same remote responses.
C29_NoSharedMutation ==
    /\ [](\A k \in 1..Len(returned) : returned[k].result = Alone(returned[k]))
    /\ [][objects' = objects /\ registry' = registry]_vars

\* two generate_config_id invocations on the same two lists, both waiting for
\* their remote call
C29_Witness ==
    /\ pc = "config_exists"
    /\ parked[1].pc = "config_exists"
    /\ objects.excluded_countries = <<USA, GBR>>
    /\ Len(objects.ofac_enabled) = 2
    /\ frame.minimum_age # parked[1].frame.minimum_age

\* both have returned, the one that began first last
C29_WitnessBoth ==
    /\ Len(returned) = 2
    /\ returned[1].frame.op = "generate_config_id"
    /\ returned[2].frame.op = "generate_config_id"
    /\ "config_id" \in DOMAIN returned[1].result
    /\ "config_id" \in DOMAIN returned[2].result
    /\ returned[1].frame.minimum_age = 18
    /\ returned[2].frame.minimum_age = 1
    /\ returned[1].result.exists_on_chain
    /\ ~returned[2].result.exists_on_chain

====
